---- MODULE Spec2Model ----
(***************************************************************************)
(* A model of tuck, a detachable terminal session manager (rot1024/tuck).   *)
(*                                                                         *)
(*   - the session daemon (session.Server): PTY-reader, child-waiter,       *)
(*     accept loop, one handler per client connection, Shutdown;           *)
(*   - the client's input loop with its detach state machine;               *)
(*   - the on-disk registry (<name>.sock, <name>.json, <name>.err), session *)
(*     creation by launcher + daemon, and List.                             *)
(*                                                                         *)
(* Each part has its own specification over the shared variables:           *)
(*   SpecStream   the daemon's output path (replay buffer, broadcast, Exit) *)
(*   SpecResize   the daemon's input path (Input / Resize frames, PTY size) *)
(*   SpecDetach   the client's handleInput                                  *)
(*   SpecRegistry creation race, Exists, List, daemon crash                 *)
(*   SpecShutdown the output path with Shutdown invoked repeatedly          *)
(*   SpecReattach the output path with clients one after another            *)
(*   SpecFanout   broadcasts to several clients, up to the Exit broadcast   *)
(*   SpecGrace    the output path under fair scheduling of the child-waiter *)
(*   SpecClient   the client process: both loops, Exit, close, signal       *)
(*   SpecFrame    readMessage on every stream                               *)
(*   SpecCodec    writeMessage and readMessage on one stream                *)
(*   SpecBadFrame the input path with frames that readMessage rejects       *)
(*   SpecStartup  session creation with failing StartPTY and Save           *)
(*   SpecWire     the frames of one connection, write by write              *)
(*   SpecClose    the client's two loops with Client.close step by step     *)
(*   SpecLocks    the daemon with every lock acquisition a step of its own  *)
(***************************************************************************)
EXTENDS Integers, Sequences, FiniteSets, TLC

\* ------------------------------------------------------------------ bounds
\* Number of client connections the daemon sees.
NConn == 2
\* Number of bytes the PTY child writes before it exits.
MaxBytes == 3
\* The replay buffer's cap (1024*1024 in the source), scaled down.
ReplayCap == 2
\* The PTY-reader's read chunk (32*1024 in the source), scaled down.
ReadChunk == 2
\* The child-waiter's grace loop (50 ticks in the source), scaled down.
GraceTicks == 2
\* Window sizes a Resize frame may carry: rows in 0..MaxRows, cols in 0..MaxCols.
MaxRows == 1
MaxCols == 2
\* Input frames a handler serves per connection.
MaxInputs == 1
\* Bytes the terminal delivers to the client in all, and per Read (1024 in the
\* source), scaled down.
MaxInput == 4
MaxRead == 3
\* The largest payload length readMessage accepts (1024*1024 in the source),
\* scaled down.
MaxFrameLen == 3
\* Concurrent creations of the one session name (launcher l starts daemon l).
NLaunch == 2
\* The launcher's wait loop (50 iterations in the source), scaled down.
PollTicks == 2
\* Frames written to one stream.
MaxFrames == 2
\* Bytes the child writes where every lock acquisition is a step.
LockBytes == 1

\* --------------------------------------------------------- program constants
MsgInput == 1
MsgOutput == 2
MsgResize == 3
MsgExit == 4
\* The bytes handleInput tests for, and two sample keys.
LF == 10
CR == 13
ESC == 27
Dot == 46
Tilde == 126
CtrlBackslash == 28
LetterA == 97

Conns == 1..NConn
\* The output path is explored with one client connection.
StreamConns == {1}
Sizes == {<<r, c>> : r \in 0..MaxRows, c \in 0..MaxCols}
\* The bytes a terminal read may hold.
Alphabet == {LF, ESC, CtrlBackslash, Dot, LetterA, Tilde}
\* DetachKey values: DefaultDetachKeys, a control key, and both.
KeyConfigs ==
  { <<[CtrlKey |-> 0, EscapeChar |-> Tilde]>>,
    <<[CtrlKey |-> CtrlBackslash, EscapeChar |-> 0]>>,
    <<[CtrlKey |-> 0, EscapeChar |-> Tilde],
      [CtrlKey |-> CtrlBackslash, EscapeChar |-> 0]>> }
\* The byte streams handed to readMessage: a header of a type byte and four
\* length bytes, then payload bytes; and streams that end inside the header.
\* The declared lengths go from 0 past MaxFrameLen, and, with a nonzero high
\* byte, far past it; the payloads from none to one byte more than
\* MaxFrameLen.
PayloadBytes == {0, 255}
Payloads == UNION {[1..n -> PayloadBytes] : n \in 0..(MaxFrameLen + 1)}
Headers ==
  {<<t, a, b, c, l>> : t \in {MsgInput, MsgOutput, MsgResize, MsgExit},
                       a \in {0, 1}, b \in {0, 1}, c \in {0, 1},
                       l \in 0..(MaxFrameLen + 2)}
Streams ==
  {h \o pay : h \in Headers, pay \in Payloads}
    \cup {SubSeq(h, 1, n) : h \in Headers, n \in 0..4}
\* Launchers, and the pids of the daemons they start.
Procs == 1..NLaunch
\* The payloads of the Output frames the client reads: without a newline
\* byte, with '\n', with '\r', and with a newline byte that is not the first.
OutPayloads == {<<LetterA>>, <<LF>>, <<CR>>, <<LetterA, CR>>}
\* The type bytes writeMessage is called with: message types and bytes that
\* are none.
TypeBytes == {0, MsgOutput, MsgExit, 255}

VARIABLES
  \* --- the PTY and its child
  childState,     \* "running" | "exited" (the child process)
  emitted,        \* number of bytes the child has written to the slave side
  ptyPending,     \* bytes written by the child, not yet read from the master
  ptySize,        \* the PTY's window size <<rows, cols>>
  ptyIn,          \* the connections whose Input payloads reached the PTY, in order
  \* --- Server fields
  clients,        \* s.clients: the registered connections
  info,           \* clientInfo of each connection: <<rows, cols>>
  ptyExited,      \* s.ptyExited
  hadClient,      \* s.hadClient
  done,           \* s.done is closed
  outputBuf,      \* s.outputBuf
  outputBufMu,    \* holder of s.outputBufMu: "free" | "reader" | "handler"
  mu,             \* holders of s.mu: [w: the task holding Lock (a set of
                  \* at most one), r: the tasks holding RLock]
  listenerClosed, \* s.listener is closed
  ptyClosed,      \* s.pty is closed
  serverExited,   \* Run has returned: the daemon process has ended
  \* --- the server's tasks
  rpc,            \* PTY-reader: "read" | "lock" | "trunc" | "bcast" | "end"
  rbuf,           \* PTY-reader: buf[:n] of the last read
  wpc,            \* child-waiter position
  ticks,          \* child-waiter: iterations of the grace loop done
  hpc,            \* handleClient position per connection
  nInputs,        \* Input frames served per connection
  \* --- connections
  connClosed,     \* the server closed its end of the connection
  clientGone,     \* the client closed its end of the connection
  sent,           \* frames the server wrote to each connection, in order
  \* --- history
  hist,           \* every byte appended to the replay buffer so far
  lastWriter,     \* the connection whose stored size the PTY was last set to (0: none)
  lastFrameSize,  \* the size the last Resize or sized Input frame set (<<>>: none)
  due,            \* per connection: "no"; "exit" once it is registered when the
                  \* child exits or accepted after that; "late" when it was
                  \* accepted after ptyExited was set
  \* --- the files of one session name in the data directory
  sockFile,       \* <name>.sock: 0 when absent, else the daemon that bound it
  jsonFile,       \* <name>.json: 0 when absent, else the pid it records
  errFile,        \* <name>.err: 0 when absent, else the daemon that wrote it
  \* --- Client (the attached terminal's input loop)
  detachKeys,     \* c.detachKeys
  afterNewline,   \* c.afterNewline
  sawEscapeChar,  \* c.sawEscapeChar
  inEscSeq,       \* c.inEscSeq
  cdone,          \* c.done is closed
  consumed,       \* every byte os.Stdin.Read has returned, in order
  lastRead,       \* buf[:n] of the last os.Stdin.Read
  lastOut,        \* the payload of the last Output frame handleOutput read
  forwarded,      \* the payloads of the Input frames written, concatenated
  ipc,            \* handleInput: "top" | "read" (blocked in Stdin.Read) | "end"
  opc,            \* handleOutput: "top" | "read" (blocked in readMessage) | "end"
  termRaw,        \* the terminal is in raw mode (MakeRaw done, not yet restored)
  cexit,          \* how the client process ended: "no" while it runs
  \* --- the frame reader
  rStream,        \* the bytes the io.Reader holds
  rPos,           \* how many of them have been read
  rResult,        \* what readMessage returned ("none" before the call)
  written,        \* the frames writeMessage was called with on the stream
  got,            \* the frames readMessage returned from the stream
  \* --- session creation and listing
  alive,          \* per daemon pid: the process exists
  lpc,            \* launcher position (createAndAttachSession in the foreground)
  polls,          \* launcher: iterations of the wait loop done
  dpc,            \* daemon position (createAndAttachSession, NewServer)
  ptyHeld,        \* per daemon: it holds a started PTY
  lspc,           \* List position
  listed,         \* List: the pids of the sessions collected so far
  reapDue         \* history: the dead daemon whose socket was there when the
                  \* running List call read the directory (0: none)

childV  == <<childState, emitted, ptyPending>>
readerV == <<rpc, rbuf>>
bufV    == <<outputBuf, outputBufMu, hist>>
waiterV == <<wpc, ticks>>
flagV   == <<ptyExited, hadClient, done, listenerClosed, ptyClosed, serverExited>>
clientV == <<clients, info, hpc, nInputs>>
connV   == <<connClosed, clientGone>>
sizeV   == <<ptySize, lastWriter, lastFrameSize>>
ghostV  == <<due>>
fileV   == <<sockFile, jsonFile, errFile>>

detachV == <<detachKeys, afterNewline, sawEscapeChar, inEscSeq, cdone,
             consumed, lastRead, lastOut, forwarded, ipc, opc, termRaw, cexit>>
regV    == <<alive, lpc, polls, dpc, ptyHeld, lspc, listed, reapDue>>

frameV  == <<rStream, rPos, rResult, written, got>>
lockV   == <<mu>>

\* The Server's fields and tasks.
coreV   == <<childV, readerV, bufV, waiterV, flagV, clientV, connV, sizeV,
             ghostV, sent, ptyIn>>
\* The server's own state, without the session files.
serverV == <<coreV, frameV, lockV>>
\* What the server's actions never touch.
restV   == <<detachV, regV, frameV, lockV>>

vars == <<serverV, fileV, detachV, regV>>

\* ----------------------------------------------------------------- helpers
Min(a, b) == IF a < b THEN a ELSE b

Frame(t, d) == [type |-> t, data |-> d]

\* A write on a connection reaches the client only while both ends are open.
ConnOpen(c) == ~connClosed[c] /\ ~clientGone[c] /\ ~serverExited

\* WriteMessage, with every frame lost.
WriteMessageLost(s, c, t, d) == s

\* writeMessage(conn, msgType, data): the frame is appended to what the
\* connection carries; on a closed connection the write fails and is dropped.
WriteMessage(s, c, t, d) ==
  IF ConnOpen(c) THEN [s EXCEPT ![c] = Append(@, Frame(t, d))] ELSE s

\* Broadcast, giving up for all when the write to one connection fails.
BroadcastAllOrNone(s, t, d) ==
  IF \E c \in clients : ~(~connClosed[c] /\ ~clientGone[c] /\ ~serverExited)
  THEN s
  ELSE [c \in Conns |-> IF c \in clients THEN Append(s[c], [type |-> t, data |-> d])
                                         ELSE s[c]]

\* broadcast(msgType, data): under mu.RLock, one writeMessage per registered
\* connection; errors are ignored.
Broadcast(s, t, d) ==
  [c \in Conns |-> IF c \in clients /\ ConnOpen(c)
                   THEN Append(s[c], Frame(t, d)) ELSE s[c]]

\* Truncate, keeping the head of the buffer instead of its tail.
TruncateHead(b) ==
  IF Len(b) > ReplayCap THEN SubSeq(b, 1, ReplayCap) ELSE b

\* The truncation of handlePTYOutput: keep the last ReplayCap bytes.
Truncate(b) ==
  IF Len(b) > ReplayCap THEN SubSeq(b, Len(b) - ReplayCap + 1, Len(b)) ELSE b

\* pty.Resize(rows, cols): TIOCSWINSZ on the master with the values as given
\* (no check of its own); it fails on a closed file.
PtyResize(size) == IF ptyClosed THEN ptySize ELSE size

\* HasSize, without the test of rows and cols.
HasSizeAlways(size) == TRUE

\* info.rows > 0 && info.cols > 0: the guard of handleClient's MsgInput case
\* and of its cleanup scan.
HasSize(size) == size[1] > 0 /\ size[2] > 0

\* ------------------------------------------------------------------- Init
\* The Server as NewServer returns it and Run starts it: the PTY child runs,
\* no client is connected.
InitServerFields ==
  /\ childState = "running" /\ emitted = 0 /\ ptyPending = <<>>
  /\ ptySize = <<0, 0>> /\ ptyIn = <<>>
  /\ clients = {} /\ info = [c \in Conns |-> <<0, 0>>]
  /\ ptyExited = FALSE /\ hadClient = FALSE /\ done = FALSE
  /\ outputBuf = <<>> /\ outputBufMu = "free"
  /\ mu = [w |-> {}, r |-> {}]
  /\ listenerClosed = FALSE /\ ptyClosed = FALSE /\ serverExited = FALSE
  /\ rpc = "read" /\ rbuf = <<>>
  /\ wpc = "wait" /\ ticks = 0
  /\ hpc = [c \in Conns |-> "none"]
  /\ nInputs = [c \in Conns |-> 0]
  /\ connClosed = [c \in Conns |-> FALSE]
  /\ clientGone = [c \in Conns |-> FALSE]
  /\ sent = [c \in Conns |-> <<>>]
  /\ hist = <<>> /\ lastWriter = 0 /\ lastFrameSize = <<>>
  /\ due = [c \in Conns |-> "no"]

\* No frame is being read.
NoResult == [status |-> "none", type |-> 0, data |-> <<>>]

ReaderAtRest ==
  /\ rStream = <<>> /\ rPos = 0 /\ rResult = NoResult
  /\ written = <<>> /\ got = <<>>

InitServerState == InitServerFields /\ ReaderAtRest

\* Attach and run: the Client as constructed, the terminal in raw mode, both
\* loops started, before the first read of the terminal.
InitClient ==
  /\ detachKeys \in KeyConfigs
  /\ afterNewline = TRUE /\ sawEscapeChar = 0 /\ inEscSeq = FALSE
  /\ cdone = FALSE /\ consumed = <<>> /\ lastRead = <<>> /\ forwarded = <<>>
  /\ lastOut = <<>>
  /\ ipc = "top" /\ opc = "top" /\ termRaw = TRUE /\ cexit = "no"

\* The client with the default keys, for the specifications that do not run it.
ClientAtRest ==
  /\ detachKeys = <<[CtrlKey |-> 0, EscapeChar |-> Tilde]>>
  /\ afterNewline = TRUE /\ sawEscapeChar = 0 /\ inEscSeq = FALSE
  /\ cdone = FALSE /\ consumed = <<>> /\ lastRead = <<>> /\ forwarded = <<>>
  /\ lastOut = <<>>
  /\ ipc = "top" /\ opc = "top" /\ termRaw = TRUE /\ cexit = "no"

\* An empty data directory; every launcher is about to run `create <name>`.
InitRegistry ==
  /\ sockFile = 0 /\ jsonFile = 0 /\ errFile = 0
  /\ alive = [d \in Procs |-> FALSE]
  /\ lpc = [l \in Procs |-> "check"]
  /\ polls = [l \in Procs |-> 0]
  /\ dpc = [d \in Procs |-> "none"]
  /\ ptyHeld = [d \in Procs |-> FALSE]
  /\ lspc = "idle" /\ listed = {} /\ reapDue = 0

\* Daemon 1 serves the name: its launcher reported it created, the socket is
\* bound and the descriptor saved; no other creation and no List runs.
RegistryServing ==
  /\ sockFile = 1 /\ jsonFile = 1 /\ errFile = 0
  /\ alive = [d \in Procs |-> d = 1]
  /\ lpc = [l \in Procs |-> IF l = 1 THEN "created" ELSE "failed"]
  /\ polls = [l \in Procs |-> 0]
  /\ dpc = [d \in Procs |-> IF d = 1 THEN "serving" ELSE "none"]
  /\ ptyHeld = [d \in Procs |-> d = 1]
  /\ lspc = "idle" /\ listed = {} /\ reapDue = 0

InitServer == InitServerState /\ ClientAtRest /\ RegistryServing

\* ------------------------------------------------------------ the PTY child
\* The child writes its next byte to the slave side. A byte is modelled by
\* its position in the child's output, so that every byte is distinguishable.
ChildWrite ==
  /\ childState = "running" /\ emitted < MaxBytes
  /\ emitted' = emitted + 1
  /\ ptyPending' = Append(ptyPending, emitted + 1)
  /\ UNCHANGED <<childState, readerV, bufV, waiterV, flagV, clientV, connV,
                 sizeV, ghostV, fileV, sent, ptyIn,
                 restV>>

\* The child process ends. What it wrote stays readable on the master.
ChildExit ==
  /\ childState = "running"
  /\ childState' = "exited"
  /\ UNCHANGED <<emitted, ptyPending, readerV, bufV, waiterV, flagV, clientV,
                 connV, sizeV, fileV, sent, ptyIn,
                 restV>>

\* ----------------------------------------------------- Server.handlePTYOutput
\* s.pty.File.Read(buf) returns n > 0 bytes.
ReaderRead ==
  /\ ~serverExited /\ rpc = "read" /\ ~ptyClosed /\ Len(ptyPending) > 0
  /\ \E n \in 1..Min(ReadChunk, Len(ptyPending)) :
       /\ rbuf' = SubSeq(ptyPending, 1, n)
       /\ ptyPending' = SubSeq(ptyPending, n + 1, Len(ptyPending))
  /\ rpc' = "lock"
  /\ UNCHANGED <<childState, emitted, bufV, waiterV, flagV, clientV, connV,
                 sizeV, ghostV, fileV, sent, ptyIn,
                 restV>>

\* The loop ends: done is closed at the top of the loop, or Read fails (the
\* master is closed, or the child is gone and nothing is left to read).
ReaderReturn ==
  /\ ~serverExited /\ rpc = "read"
  /\ \/ done
     \/ ptyClosed
     \/ childState = "exited" /\ Len(ptyPending) = 0
  /\ rpc' = "end"
  /\ UNCHANGED <<childV, rbuf, bufV, waiterV, flagV, clientV, connV, sizeV,
                 ghostV, fileV, sent, ptyIn,
                 restV>>

\* outputBufMu.Lock(); s.outputBuf = append(s.outputBuf, buf[:n]...)
ReaderAppend ==
  /\ ~serverExited /\ rpc = "lock" /\ outputBufMu = "free"
  /\ outputBufMu' = "reader"
  /\ outputBuf' = outputBuf \o rbuf
  /\ hist' = hist \o rbuf
  /\ rpc' = "trunc"
  /\ UNCHANGED <<childV, rbuf, waiterV, flagV, clientV, connV, sizeV, ghostV,
                 fileV, sent, ptyIn,
                 restV>>

\* if len > 1MB { s.outputBuf = s.outputBuf[len-1MB:] }; outputBufMu.Unlock()
ReaderTruncate ==
  /\ ~serverExited /\ rpc = "trunc"
  /\ outputBuf' = Truncate(outputBuf)
  /\ outputBufMu' = "free"
  /\ rpc' = "bcast"
  /\ UNCHANGED <<childV, rbuf, hist, waiterV, flagV, clientV, connV, sizeV,
                 ghostV, fileV, sent, ptyIn,
                 restV>>

\* s.broadcast(MsgOutput, buf[:n])
ReaderBroadcast ==
  /\ ~serverExited /\ rpc = "bcast"
  /\ sent' = Broadcast(sent, MsgOutput, rbuf)
  /\ rpc' = "read"
  /\ UNCHANGED <<childV, rbuf, bufV, waiterV, flagV, clientV, connV, sizeV,
                 ghostV, fileV, ptyIn,
                 restV>>

\* ------------------------------------------------- Server.Run: child-waiter
\* WaiterSetExited, without waiting for the child.
WaiterSetExitedEarly ==
  /\ ~serverExited /\ wpc = "wait"
  /\ ptyExited' = TRUE
  /\ wpc' = "bcastExit"
  /\ UNCHANGED <<childV, readerV, bufV, ticks, hadClient, done, listenerClosed,
                 ptyClosed, serverExited, clientV, connV, sizeV, ghostV, fileV,
                 sent, ptyIn,
                 restV>>

\* s.pty.Wait() returns (the child is reaped); s.mu.Lock();
\* s.ptyExited = true; s.mu.Unlock()
WaiterSetExited ==
  /\ ~serverExited /\ wpc = "wait" /\ childState = "exited"
  /\ ptyExited' = TRUE
  /\ wpc' = "bcastExit"
  /\ UNCHANGED <<childV, readerV, bufV, ticks, hadClient, done, listenerClosed,
                 ptyClosed, serverExited, clientV, connV, sizeV, ghostV, fileV,
                 sent, ptyIn,
                 restV>>

\* s.broadcast(MsgExit, nil)
WaiterBroadcastExit ==
  /\ ~serverExited /\ wpc = "bcastExit"
  /\ sent' = Broadcast(sent, MsgExit, <<>>)
  /\ wpc' = "grace"
  /\ UNCHANGED <<childV, readerV, bufV, ticks, flagV, clientV, connV, sizeV,
                 ghostV, fileV, ptyIn,
                 restV>>

\* WaiterGrace, waiting for a client with no bound on the ticks.
WaiterGraceUnbounded ==
  /\ ~serverExited /\ wpc = "grace"
  /\ IF ~hadClient
     THEN ticks' = ticks /\ wpc' = wpc
     ELSE ticks' = ticks /\ wpc' = "shutdown"
  /\ UNCHANGED <<childV, readerV, bufV, flagV, clientV, connV, sizeV, ghostV,
                 fileV, sent, ptyIn,
                 restV>>

\* One iteration of "for range 50": read hadClient; break, or sleep 100 ms.
\* After the loop, sleepMs(100) and s.Shutdown() is entered.
WaiterGrace ==
  /\ ~serverExited /\ wpc = "grace"
  /\ IF ticks < GraceTicks /\ ~hadClient
     THEN ticks' = ticks + 1 /\ wpc' = wpc
     ELSE ticks' = ticks /\ wpc' = "shutdown"
  /\ UNCHANGED <<childV, readerV, bufV, flagV, clientV, connV, sizeV, ghostV,
                 fileV, sent, ptyIn,
                 restV>>

\* ---------------------------------------------------------- Server.Shutdown
\* ShutdownCloseDone, without the test of done: every invocation tears down.
ShutdownCloseDoneAlways ==
  /\ ~serverExited /\ wpc = "shutdown"
  /\ wpc' = "sdClose" /\ done' = TRUE
  /\ UNCHANGED <<childV, readerV, bufV, ticks, ptyExited, hadClient,
                 listenerClosed, ptyClosed, serverExited, clientV, connV,
                 sizeV, ghostV, fileV, sent, ptyIn,
                 restV>>

\* select { case <-s.done: return; default: close(s.done) }
ShutdownCloseDone ==
  /\ ~serverExited /\ wpc = "shutdown"
  /\ IF done THEN wpc' = "end" /\ done' = done
             ELSE wpc' = "sdClose" /\ done' = TRUE
  /\ UNCHANGED <<childV, readerV, bufV, ticks, ptyExited, hadClient,
                 listenerClosed, ptyClosed, serverExited, clientV, connV,
                 sizeV, ghostV, fileV, sent, ptyIn,
                 restV>>

\* s.listener.Close() (closing a listener made by net.Listen unlinks its socket
\* file); s.pty.Close(); s.mu.Lock();
\* for conn := range s.clients { conn.Close() }; s.mu.Unlock()
ShutdownClose ==
  /\ ~serverExited /\ wpc = "sdClose"
  /\ listenerClosed' = TRUE
  /\ sockFile' = 0
  /\ ptyClosed' = TRUE
  /\ connClosed' = [c \in Conns |-> connClosed[c] \/ c \in clients]
  /\ wpc' = "sdRemove"
  /\ UNCHANGED <<childV, readerV, bufV, ticks, ptyExited, hadClient, done,
                 serverExited, clientV, clientGone, sizeV, ghostV, jsonFile,
                 errFile, sent, ptyIn,
                 restV>>

\* Remove(s.session.Name): the socket, info and error files are removed.
ShutdownRemove ==
  /\ ~serverExited /\ wpc = "sdRemove"
  /\ sockFile' = 0 /\ jsonFile' = 0 /\ errFile' = 0
  /\ wpc' = "end"
  /\ UNCHANGED <<childV, readerV, bufV, ticks, flagV, clientV, connV, sizeV,
                 ghostV, sent, ptyIn,
                 restV>>

\* Shutdown has returned and is invoked again.
ShutdownAgain ==
  /\ ~serverExited /\ wpc = "end"
  /\ wpc' = "shutdown"
  /\ UNCHANGED <<childV, readerV, bufV, ticks, flagV, clientV, connV, sizeV,
                 ghostV, fileV, sent, ptyIn,
                 restV>>

\* ------------------------------------------------- Server.Run: accept loop
\* s.listener.Accept() returns a connection; go s.handleClient(conn)
Accept(c) ==
  /\ ~serverExited /\ ~listenerClosed /\ hpc[c] = "none"
  /\ hpc' = [hpc EXCEPT ![c] = "accepted"]
  /\ UNCHANGED <<childV, readerV, bufV, waiterV, flagV, clients, info,
                 nInputs, connV, sizeV, fileV, sent, ptyIn,
                 restV>>

\* Accept fails on the closed listener and done is closed: Run returns nil,
\* runServer returns and the daemon process ends with all its tasks.
RunReturn ==
  /\ ~serverExited /\ listenerClosed /\ done
  /\ serverExited' = TRUE
  /\ UNCHANGED <<childV, readerV, bufV, waiterV, ptyExited, hadClient, done,
                 listenerClosed, ptyClosed, clientV, connV, sizeV, ghostV,
                 fileV, sent, ptyIn,
                 restV>>

\* ----------------------------------------------------- Server.handleClient
\* s.mu.Lock(); s.clients[conn] = &clientInfo{}; s.hadClient = true;
\* s.session.LastActive = now; s.session.Save(); s.mu.Unlock()
HandlerRegister(c) ==
  /\ ~serverExited /\ hpc[c] = "accepted"
  /\ clients' = clients \cup {c}
  /\ info' = [info EXCEPT ![c] = <<0, 0>>]
  /\ hadClient' = TRUE
  /\ jsonFile' = 1
  /\ hpc' = [hpc EXCEPT ![c] = "snapshot"]
  /\ UNCHANGED <<childV, readerV, bufV, waiterV, ptyExited, done,
                 listenerClosed, ptyClosed, serverExited, nInputs,
                 connV, sizeV, ghostV, sockFile, errFile, sent, ptyIn,
                 restV>>

\* s.outputBufMu.Lock(); if len(s.outputBuf) > 0 { writeMessage(conn,
\* MsgOutput, s.outputBuf) }
HandlerSnapshot(c) ==
  /\ ~serverExited /\ hpc[c] = "snapshot" /\ outputBufMu = "free"
  /\ outputBufMu' = "handler"
  /\ sent' = IF Len(outputBuf) > 0
             THEN WriteMessage(sent, c, MsgOutput, outputBuf) ELSE sent
  /\ hpc' = [hpc EXCEPT ![c] = "snapUnlock"]
  /\ UNCHANGED <<childV, readerV, outputBuf, hist, waiterV, flagV, clients,
                 info, nInputs, connV, sizeV, ghostV, fileV, ptyIn,
                 restV>>

\* s.outputBufMu.Unlock(); s.mu.RLock(); ptyExited := s.ptyExited;
\* s.mu.RUnlock(); if ptyExited { ... } else the read loop is entered.
HandlerSnapshotUnlock(c) ==
  /\ ~serverExited /\ hpc[c] = "snapUnlock"
  /\ outputBufMu' = "free"
  /\ hpc' = [hpc EXCEPT ![c] = IF ptyExited THEN "sendExit" ELSE "loop"]
  /\ UNCHANGED <<childV, readerV, outputBuf, hist, waiterV, flagV, clients,
                 info, nInputs, connV, sizeV, ghostV, fileV, sent, ptyIn,
                 restV>>

\* if ptyExited: writeMessage(conn, MsgExit, nil)
HandlerSendExit(c) ==
  /\ ~serverExited /\ hpc[c] = "sendExit"
  /\ sent' = WriteMessage(sent, c, MsgExit, <<>>)
  /\ hpc' = [hpc EXCEPT ![c] = "closeConn"]
  /\ UNCHANGED <<childV, readerV, bufV, waiterV, flagV, clients, info,
                 nInputs, connV, sizeV, ghostV, fileV, ptyIn,
                 restV>>

\* conn.Close(); s.mu.Lock(); delete(s.clients, conn); s.mu.Unlock(); return
HandlerCloseConn(c) ==
  /\ ~serverExited /\ hpc[c] = "closeConn"
  /\ connClosed' = [connClosed EXCEPT ![c] = TRUE]
  /\ clients' = clients \ {c}
  /\ hpc' = [hpc EXCEPT ![c] = "end"]
  /\ UNCHANGED <<childV, readerV, bufV, waiterV, flagV, info, nInputs,
                 clientGone, sizeV, ghostV, fileV, sent, ptyIn,
                 restV>>

\* The read loop ends: done is closed at the top of the loop, or readMessage
\* fails because one end of the connection is closed.
HandlerLoopEnd(c) ==
  /\ ~serverExited /\ hpc[c] = "loop"
  /\ done \/ connClosed[c] \/ clientGone[c]
  /\ hpc' = [hpc EXCEPT ![c] = "cleanup"]
  /\ UNCHANGED <<childV, readerV, bufV, waiterV, flagV, clients, info,
                 nInputs, connV, sizeV, ghostV, fileV, sent, ptyIn,
                 restV>>

\* case MsgInput: under mu.RLock, resize the PTY to this client's stored size
\* if info.rows > 0 && info.cols > 0; then s.pty.File.Write(data).
HandlerInput(c) ==
  /\ ~serverExited /\ hpc[c] = "loop" /\ ~connClosed[c] /\ ~clientGone[c]
  /\ nInputs[c] < MaxInputs
  /\ nInputs' = [nInputs EXCEPT ![c] = @ + 1]
  /\ IF HasSize(info[c])
     THEN /\ ptySize' = PtyResize(info[c])
          /\ lastWriter' = c
          /\ lastFrameSize' = info[c]
     ELSE UNCHANGED sizeV
  /\ ptyIn' = IF ptyClosed THEN ptyIn ELSE Append(ptyIn, c)
  /\ UNCHANGED <<childV, readerV, bufV, waiterV, flagV, clients, info, hpc,
                 connV, ghostV, fileV, sent,
                 restV>>

\* case MsgResize with len(data) >= 4: rows, cols are decoded and, under
\* mu.Lock, stored in s.clients[conn].
HandlerResize(c) ==
  /\ ~serverExited /\ hpc[c] = "loop" /\ ~connClosed[c] /\ ~clientGone[c]
  /\ \E size \in Sizes : info' = [info EXCEPT ![c] = size]
  /\ hpc' = [hpc EXCEPT ![c] = "resizeApply"]
  /\ UNCHANGED <<childV, readerV, bufV, waiterV, flagV, clients, nInputs,
                 connV, sizeV, ghostV, fileV, sent, ptyIn,
                 restV>>

\* ... then, outside the lock, s.pty.Resize(rows, cols). Only this handler
\* writes s.clients[conn], so rows, cols are the stored info[c].
HandlerResizeApply(c) ==
  /\ ~serverExited /\ hpc[c] = "resizeApply"
  /\ ptySize' = PtyResize(info[c])
  /\ lastWriter' = c
  /\ lastFrameSize' = info[c]
  /\ hpc' = [hpc EXCEPT ![c] = "loop"]
  /\ UNCHANGED <<childV, readerV, bufV, waiterV, flagV, clients, info,
                 nInputs, connV, ghostV, fileV, sent, ptyIn,
                 restV>>

\* HandlerCleanup, without the resize to a remaining client's size.
HandlerCleanupNoResize(c) ==
  /\ ~serverExited /\ hpc[c] = "cleanup"
  /\ clients' = clients \ {c}
  /\ info' = [info EXCEPT ![c] = <<0, 0>>]
  /\ connClosed' = [connClosed EXCEPT ![c] = TRUE]
  /\ hpc' = [hpc EXCEPT ![c] = "end"]
  /\ UNCHANGED <<childV, readerV, bufV, waiterV, flagV, nInputs, clientGone,
                 sizeV, ghostV, fileV, sent, ptyIn,
                 restV>>

\* The deferred cleanup, under mu.Lock: delete(s.clients, conn); resize the
\* PTY to the size of the first remaining client found with rows, cols > 0
\* (Go's map iteration order is unspecified: any such client); then
\* conn.Close().
HandlerCleanup(c) ==
  /\ ~serverExited /\ hpc[c] = "cleanup"
  /\ clients' = clients \ {c}
  /\ info' = [info EXCEPT ![c] = <<0, 0>>]
  /\ LET rest == {d \in clients \ {c} : HasSize(info[d])}
     IN  IF rest = {}
         THEN UNCHANGED sizeV
         ELSE \E d \in rest :
                /\ ptySize' = PtyResize(info[d])
                /\ lastWriter' = d
                /\ lastFrameSize' = lastFrameSize
  /\ connClosed' = [connClosed EXCEPT ![c] = TRUE]
  /\ hpc' = [hpc EXCEPT ![c] = "end"]
  /\ UNCHANGED <<childV, readerV, bufV, waiterV, flagV, nInputs, clientGone,
                 ghostV, fileV, sent, ptyIn,
                 restV>>

\* ------------------------------------------------------------- the clients
\* A client in a session closes its end (detach, exit after Exit, kill). The
\* server learns of it at the handler's next read.
ClientDisconnect(c) ==
  /\ hpc[c] = "loop" /\ ~clientGone[c]
  /\ clientGone' = [clientGone EXCEPT ![c] = TRUE]
  /\ UNCHANGED <<childV, readerV, bufV, waiterV, flagV, clientV, connClosed,
                 sizeV, ghostV, fileV, sent, ptyIn,
                 restV>>

\* ------------------------------------------------------------- readMessage
\* binary.BigEndian.Uint32 of four bytes.
Uint32(b) == b[1] * 16777216 + b[2] * 65536 + b[3] * 256 + b[4]

\* readMessage, rejecting the length MaxFrameLen itself too.
readMessageStrict(stream) ==
  IF Len(stream) < 5
  THEN [status |-> "err", type |-> 0, data |-> <<>>, read |-> Len(stream)]
  ELSE LET length == Uint32(SubSeq(stream, 2, 5)) IN
         IF length >= MaxFrameLen
         THEN [status |-> "err", type |-> 0, data |-> <<>>, read |-> 5]
         ELSE IF Len(stream) - 5 < length
         THEN [status |-> "err", type |-> 0, data |-> <<>>,
               read |-> Len(stream)]
         ELSE [status |-> "ok", type |-> stream[1],
               data |-> SubSeq(stream, 6, 5 + length), read |-> 5 + length]

\* readMessage(r): io.ReadFull of the 5 header bytes (an error if the stream
\* ends first); the length is decoded; a length over the limit is an error
\* (io.ErrShortBuffer) with nothing more read; else io.ReadFull of the payload
\* (an error if the stream ends first); the type and the payload are returned.
readMessage(stream) ==
  IF Len(stream) < 5
  THEN [status |-> "err", type |-> 0, data |-> <<>>, read |-> Len(stream)]
  ELSE LET length == Uint32(SubSeq(stream, 2, 5)) IN
         IF length > MaxFrameLen
         THEN [status |-> "err", type |-> 0, data |-> <<>>, read |-> 5]
         ELSE IF Len(stream) - 5 < length
         THEN [status |-> "err", type |-> 0, data |-> <<>>,
               read |-> Len(stream)]
         ELSE [status |-> "ok", type |-> stream[1],
               data |-> SubSeq(stream, 6, 5 + length), read |-> 5 + length]

\* A call of readMessage on the stream.
ReadMessage ==
  /\ rResult.status = "none"
  /\ LET r == readMessage(rStream) IN
       /\ rResult' = [status |-> r.status, type |-> r.type, data |-> r.data]
       /\ rPos' = r.read
  /\ UNCHANGED <<rStream, written, got, coreV, fileV, detachV, regV, lockV>>

\* PutUint32, with the low byte first.
PutUint32LE(n) ==
  <<n % 256, (n \div 256) % 256, (n \div 65536) % 256, n \div 16777216>>

\* binary.BigEndian.PutUint32 of uint32(n): four bytes, the high byte first
\* (n is a length below 2^31 here, which uint32 leaves as it is).
PutUint32(n) ==
  <<n \div 16777216, (n \div 65536) % 256, (n \div 256) % 256, n % 256>>

\* writeMessage(w, msgType, data): the bytes of its writes, in order: the
\* header (the type byte, then the payload's length), then the payload if it
\* is not empty.
writeMessage(t, d) == <<t>> \o PutUint32(Len(d)) \o d

\* A call of writeMessage on the stream.
WriteFrame ==
  /\ Len(written) < MaxFrames
  /\ \E t \in TypeBytes, d \in Payloads :
       /\ rStream' = rStream \o writeMessage(t, d)
       /\ written' = Append(written, Frame(t, d))
  /\ UNCHANGED <<rPos, rResult, got, coreV, fileV, detachV, regV, lockV>>

\* A call of readMessage on what is left of the stream. The stream stays
\* open, so the call returns once the bytes it asks for are there: the header,
\* and the payload when the declared length is within the limit. After an
\* error the reader gives the stream up.
ReadFrame ==
  /\ rResult.status # "err"
  /\ LET rest == SubSeq(rStream, rPos + 1, Len(rStream))
         r == readMessage(rest)
     IN  /\ Len(rest) >= 5
         /\ \/ Uint32(SubSeq(rest, 2, 5)) > MaxFrameLen
            \/ Len(rest) >= 5 + Uint32(SubSeq(rest, 2, 5))
         /\ rResult' = [status |-> r.status, type |-> r.type, data |-> r.data]
         /\ rPos' = rPos + r.read
         /\ got' = IF r.status = "ok" THEN Append(got, Frame(r.type, r.data))
                   ELSE got
  /\ UNCHANGED <<rStream, written, coreV, fileV, detachV, regV, lockV>>

\* ------------------------------------------- writeMessage, write by write
\* The stream is what connection 1 carries to its client. conn.Write is
\* atomic; writeMessage is two of them, w.Write(header) and, for a payload
\* that is not empty, w.Write(data).
Header(t, d) == <<t>> \o PutUint32(Len(d))

\* s.broadcast(MsgOutput, buf[:n]) takes mu.RLock and calls writeMessage for
\* the registered connection: its first write, the header. On a closed
\* connection the write fails, writeMessage returns the error and broadcast
\* ends.
WireReaderHeader ==
  /\ ~serverExited /\ rpc = "bcast"
  /\ IF 1 \in clients /\ ConnOpen(1)
     THEN rStream' = rStream \o Header(MsgOutput, rbuf) /\ rpc' = "bcastPayload"
     ELSE rStream' = rStream /\ rpc' = "read"
  /\ UNCHANGED <<childV, rbuf, bufV, waiterV, flagV, clientV, connV, sizeV,
                 ghostV, fileV, sent, ptyIn,
                 detachV, regV, rPos, rResult, written, got, lockV>>

\* ... its second write, the payload; broadcast ends and releases mu.
WireReaderPayload ==
  /\ ~serverExited /\ rpc = "bcastPayload"
  /\ rStream' = IF ConnOpen(1) THEN rStream \o rbuf ELSE rStream
  /\ sent' = WriteMessage(sent, 1, MsgOutput, rbuf)
  /\ rpc' = "read"
  /\ UNCHANGED <<childV, rbuf, bufV, waiterV, flagV, clientV, connV, sizeV,
                 ghostV, fileV, ptyIn,
                 detachV, regV, rPos, rResult, written, got, lockV>>

\* s.broadcast(MsgExit, nil) by the child-waiter, under mu.RLock: the frame
\* has no payload, so writeMessage is the header write alone.
WireWaiterExit ==
  /\ ~serverExited /\ wpc = "bcastExit"
  /\ rStream' = IF 1 \in clients /\ ConnOpen(1)
                THEN rStream \o Header(MsgExit, <<>>) ELSE rStream
  /\ sent' = Broadcast(sent, MsgExit, <<>>)
  /\ wpc' = "grace"
  /\ UNCHANGED <<childV, readerV, bufV, ticks, flagV, clientV, connV, sizeV,
                 ghostV, fileV, ptyIn,
                 detachV, regV, rPos, rResult, written, got, lockV>>

\* The handler's snapshot: s.outputBufMu.Lock(); if len(s.outputBuf) > 0,
\* writeMessage(conn, MsgOutput, s.outputBuf): its first write, the header.
WireSnapHeader(c) ==
  /\ ~serverExited /\ hpc[c] = "snapshot" /\ outputBufMu = "free"
  /\ outputBufMu' = "handler"
  /\ IF Len(outputBuf) > 0 /\ ConnOpen(c)
     THEN /\ rStream' = rStream \o Header(MsgOutput, outputBuf)
          /\ hpc' = [hpc EXCEPT ![c] = "snapPayload"]
     ELSE /\ rStream' = rStream
          /\ hpc' = [hpc EXCEPT ![c] = "snapUnlock"]
  /\ UNCHANGED <<childV, readerV, outputBuf, hist, waiterV, flagV, clients,
                 info, nInputs, connV, sizeV, ghostV, fileV, sent, ptyIn,
                 detachV, regV, rPos, rResult, written, got, lockV>>

\* ... its second write, the payload, still under outputBufMu.
WireSnapPayload(c) ==
  /\ ~serverExited /\ hpc[c] = "snapPayload"
  /\ rStream' = IF ConnOpen(c) THEN rStream \o outputBuf ELSE rStream
  /\ sent' = WriteMessage(sent, c, MsgOutput, outputBuf)
  /\ hpc' = [hpc EXCEPT ![c] = "snapUnlock"]
  /\ UNCHANGED <<childV, readerV, bufV, waiterV, flagV, clients, info,
                 nInputs, connV, sizeV, ghostV, fileV, ptyIn,
                 detachV, regV, rPos, rResult, written, got, lockV>>

\* if ptyExited: writeMessage(conn, MsgExit, nil), the header write alone.
WireHandlerExit(c) ==
  /\ ~serverExited /\ hpc[c] = "sendExit"
  /\ rStream' = IF ConnOpen(c) THEN rStream \o Header(MsgExit, <<>>)
                ELSE rStream
  /\ sent' = WriteMessage(sent, c, MsgExit, <<>>)
  /\ hpc' = [hpc EXCEPT ![c] = "closeConn"]
  /\ UNCHANGED <<childV, readerV, bufV, waiterV, flagV, clients, info,
                 nInputs, connV, sizeV, ghostV, fileV, ptyIn,
                 detachV, regV, rPos, rResult, written, got, lockV>>

\* The streams on which readMessage fails although the connection is open:
\* a whole header that declares a length over the limit.
Oversized ==
  {s \in Streams : /\ Len(s) >= 5 /\ Uint32(SubSeq(s, 2, 5)) > MaxFrameLen
                   /\ readMessage(s).status = "err"}

\* HandlerBadFrame, with the server shut down by the bad frame.
HandlerBadFrameFatal(c) ==
  /\ ~serverExited /\ hpc[c] = "loop" /\ ~connClosed[c] /\ ~clientGone[c]
  /\ Oversized # {}
  /\ hpc' = [hpc EXCEPT ![c] = "cleanup"]
  /\ done' = TRUE
  /\ UNCHANGED <<childV, readerV, bufV, waiterV, ptyExited, hadClient,
                 listenerClosed, ptyClosed, serverExited, clients, info,
                 nInputs, connV, sizeV, ghostV, fileV, sent, ptyIn,
                 restV>>

\* msgType, data, err := readMessage(conn); if err != nil { return }: the
\* client sent a frame that readMessage rejects; the handler returns and its
\* deferred cleanup runs next.
HandlerBadFrame(c) ==
  /\ ~serverExited /\ hpc[c] = "loop" /\ ~connClosed[c] /\ ~clientGone[c]
  /\ Oversized # {}
  /\ hpc' = [hpc EXCEPT ![c] = "cleanup"]
  /\ UNCHANGED <<childV, readerV, bufV, waiterV, flagV, clients, info,
                 nInputs, connV, sizeV, ghostV, fileV, sent, ptyIn,
                 restV>>

\* ------------------------------------------------------ Client.handleInput
IsEscapeSequence(dk) == dk.EscapeChar # 0

\* The loop over c.detachKeys at the head of the byte loop: b is the control
\* key of a single-key detach.
IsCtrlDetach(b) ==
  \E i \in 1..Len(detachKeys) :
    ~IsEscapeSequence(detachKeys[i]) /\ b = detachKeys[i].CtrlKey

isEscapeChar(b) ==
  \E i \in 1..Len(detachKeys) :
    IsEscapeSequence(detachKeys[i]) /\ detachKeys[i].EscapeChar = b

IsNewline(b) == b = LF \/ b = CR

IsLetter(b) == (b >= 65 /\ b <= 90) \/ (b >= 97 /\ b <= 122)

\* HandleByte, with the escape-sequence machine asked before the control keys.
HandleByteEscFirst(st, b) ==
  IF st.saw # 0
  THEN IF b = Dot
       THEN [st |-> [st EXCEPT !.saw = 0], out |-> <<>>, detach |-> TRUE]
       ELSE [st |-> [st EXCEPT !.saw = 0, !.an = IsNewline(b)],
             out |-> IF b = st.saw THEN <<st.saw>> ELSE <<st.saw, b>>,
             detach |-> FALSE]
  ELSE IF st.an /\ isEscapeChar(b)
  THEN [st |-> [st EXCEPT !.saw = b, !.an = FALSE], out |-> <<>>,
        detach |-> FALSE]
  ELSE IF IsCtrlDetach(b)
  THEN [st |-> st, out |-> <<>>, detach |-> TRUE]
  ELSE [st |-> IF b = ESC THEN [st EXCEPT !.esc = TRUE]
               ELSE IF st.esc
               THEN (IF IsLetter(b) THEN [st EXCEPT !.esc = FALSE] ELSE st)
               ELSE IF IsNewline(b) THEN [st EXCEPT !.an = TRUE]
               ELSE IF b >= 32 /\ b < 127 THEN [st EXCEPT !.an = FALSE]
               ELSE st,
        out |-> <<b>>, detach |-> FALSE]

\* One iteration of the byte loop on state st = [an, saw, esc] (afterNewline,
\* sawEscapeChar, inEscSeq): the state after it, the bytes it appends to
\* toSend, and whether it calls doDetach and returns.
HandleByte(st, b) ==
  IF IsCtrlDetach(b)
  THEN [st |-> st, out |-> <<>>, detach |-> TRUE]
  ELSE IF st.saw # 0
  THEN IF b = Dot
       THEN [st |-> [st EXCEPT !.saw = 0], out |-> <<>>, detach |-> TRUE]
       ELSE [st |-> [st EXCEPT !.saw = 0, !.an = IsNewline(b)],
             out |-> IF b = st.saw THEN <<st.saw>> ELSE <<st.saw, b>>,
             detach |-> FALSE]
  ELSE IF st.an /\ isEscapeChar(b)
  THEN [st |-> [st EXCEPT !.saw = b, !.an = FALSE], out |-> <<>>,
        detach |-> FALSE]
  ELSE [st |-> IF b = ESC THEN [st EXCEPT !.esc = TRUE]
               ELSE IF st.esc
               THEN (IF IsLetter(b) THEN [st EXCEPT !.esc = FALSE] ELSE st)
               ELSE IF IsNewline(b) THEN [st EXCEPT !.an = TRUE]
               ELSE IF b >= 32 /\ b < 127 THEN [st EXCEPT !.an = FALSE]
               ELSE st,
        out |-> <<b>>, detach |-> FALSE]

\* The byte loop over buf[:n], with toSend as accumulated so far. On a detach
\* the function returns at once: toSend is not written.
RECURSIVE ScanRead(_, _, _)
ScanRead(st, bytes, toSend) ==
  IF bytes = <<>> THEN [st |-> st, toSend |-> toSend, detach |-> FALSE]
  ELSE LET r == HandleByte(st, Head(bytes)) IN
         IF r.detach THEN [st |-> r.st, toSend |-> toSend, detach |-> TRUE]
         ELSE ScanRead(r.st, Tail(bytes), toSend \o r.out)

\* ClientState, with no escape char kept from the read before.
ClientStateFresh ==
  [an |-> afterNewline, saw |-> 0, esc |-> inEscSeq]

\* The Client's fields the byte loop works on: they outlive the call of Read.
ClientState ==
  [an |-> afterNewline, saw |-> sawEscapeChar, esc |-> inEscSeq]

\* The head of handleInput's loop: select { case <-c.done: return nil;
\* default: }. On return, run's deferred calls restore the terminal and close
\* the connection, Attach returns and the process ends.
InputLoopTop ==
  /\ cexit = "no" /\ ipc = "top"
  /\ IF cdone
     THEN ipc' = "end" /\ termRaw' = FALSE /\ cexit' = "return"
     ELSE ipc' = "read" /\ UNCHANGED <<termRaw, cexit>>
  /\ UNCHANGED <<detachKeys, afterNewline, sawEscapeChar, inEscSeq, cdone,
                 consumed, lastRead, lastOut, forwarded, opc, serverV, fileV, regV>>

\* The rest of one turn of handleInput's loop: os.Stdin.Read returns n bytes
\* (done is not looked at while Read blocks); the byte loop runs; on a detach
\* doDetach closes done and restores the terminal, handleInput returns nil and
\* the process ends; else toSend, if not empty, is written as one Input frame.
HandleInputRead ==
  /\ cexit = "no" /\ ipc = "read" /\ Len(consumed) < MaxInput
  /\ \E n \in 1..Min(MaxRead, MaxInput - Len(consumed)) :
       \E bytes \in [1..n -> Alphabet] :
         LET r == ScanRead(ClientState, bytes, <<>>) IN
           /\ consumed' = consumed \o bytes
           /\ lastRead' = bytes
           /\ afterNewline' = r.st.an
           /\ sawEscapeChar' = r.st.saw
           /\ inEscSeq' = r.st.esc
           /\ cdone' = (cdone \/ r.detach)
           /\ forwarded' = IF r.detach THEN forwarded
                           ELSE forwarded \o r.toSend
           /\ ipc' = IF r.detach THEN "end" ELSE "top"
           /\ termRaw' = IF r.detach THEN FALSE ELSE termRaw
           /\ cexit' = IF r.detach THEN "detach" ELSE cexit
  /\ UNCHANGED <<detachKeys, lastOut, opc, serverV, fileV, regV>>

\* os.Stdin.Read fails: handleInput returns the error, run's deferred calls
\* restore the terminal, the process ends.
HandleInputError ==
  /\ cexit = "no" /\ ipc = "read"
  /\ ipc' = "end" /\ termRaw' = FALSE /\ cexit' = "error"
  /\ UNCHANGED <<detachKeys, afterNewline, sawEscapeChar, inEscSeq, cdone,
                 consumed, lastRead, lastOut, forwarded, opc, serverV, fileV, regV>>

\* ----------------------------------------------------- Client.handleOutput
\* The head of handleOutput's loop: return if done is closed.
OutputLoopTop ==
  /\ cexit = "no" /\ opc = "top"
  /\ opc' = IF cdone THEN "end" ELSE "read"
  /\ UNCHANGED <<detachKeys, afterNewline, sawEscapeChar, inEscSeq, cdone,
                 consumed,
                 lastRead, lastOut, forwarded, ipc, termRaw, cexit, serverV, fileV,
                 regV>>

\* HandleOutputFrame, with afterNewline assigned whether the payload holds a
\* newline.
HandleOutputFrameAssign ==
  /\ cexit = "no" /\ opc = "read"
  /\ \E data \in OutPayloads :
       /\ lastOut' = data
       /\ afterNewline' = \E i \in 1..Len(data) : IsNewline(data[i])
  /\ opc' = "top"
  /\ UNCHANGED <<detachKeys, sawEscapeChar, inEscSeq, cdone, consumed,
                 lastRead, forwarded, ipc, termRaw, cexit, serverV, fileV,
                 regV>>

\* readMessage returns an Output frame: it is written to the terminal; the
\* loop over data sets c.afterNewline = true at the first '\n' or '\r' and
\* breaks.
HandleOutputFrame ==
  /\ cexit = "no" /\ opc = "read"
  /\ \E data \in OutPayloads :
       /\ lastOut' = data
       /\ afterNewline' =
            IF \E i \in 1..Len(data) : IsNewline(data[i]) THEN TRUE
            ELSE afterNewline
  /\ opc' = "top"
  /\ UNCHANGED <<detachKeys, sawEscapeChar, inEscSeq, cdone, consumed,
                 lastRead, forwarded, ipc, termRaw, cexit, serverV, fileV,
                 regV>>

\* readMessage returns an Exit frame: c.restore(); os.Exit(0).
HandleOutputExit ==
  /\ cexit = "no" /\ opc = "read"
  /\ termRaw' = FALSE /\ cexit' = "exit"
  /\ UNCHANGED <<detachKeys, afterNewline, sawEscapeChar, inEscSeq, cdone,
                 consumed,
                 lastRead, lastOut, forwarded, ipc, opc, serverV, fileV, regV>>

\* readMessage fails (the server closed the connection): c.close(); return.
HandleOutputError ==
  /\ cexit = "no" /\ opc = "read"
  /\ cdone' = TRUE /\ opc' = "end"
  /\ UNCHANGED <<detachKeys, afterNewline, sawEscapeChar, inEscSeq, consumed,
                 lastRead, lastOut,
                 forwarded, ipc, termRaw, cexit, serverV, fileV, regV>>

\* A terminating signal (SIGTERM, SIGHUP) reaches the client: only SIGWINCH
\* is handled, so the default disposition ends the process at once.
ClientSignal ==
  /\ cexit = "no"
  /\ cexit' = "signal"
  /\ UNCHANGED <<detachKeys, afterNewline, sawEscapeChar, inEscSeq, cdone,
                 consumed,
                 lastRead, lastOut, forwarded, ipc, opc, termRaw, serverV, fileV, regV>>

\* ------------------------------------------------- the registry: Exists
\* Exists, with the liveness of the recorded pid added to the test.
ExistsLive == sockFile # 0 /\ jsonFile # 0 /\ alive[jsonFile]

\* Exists(name): os.Stat of the socket path succeeds.
Exists == sockFile # 0

\* isProcessRunning, answering true for every pid.
isProcessRunningAlways(pid) == TRUE

\* isProcessRunning(pid): signal 0 reaches a process with this pid.
isProcessRunning(pid) == alive[pid]

\* ------------------------------ createAndAttachSession in the foreground
\* if session.Exists(name) { "already exists"; os.Exit(1) }
LauncherCheck(l) ==
  /\ lpc[l] = "check"
  /\ lpc' = [lpc EXCEPT ![l] = IF Exists THEN "failed" ELSE "spawn"]
  /\ UNCHANGED <<serverV, fileV, detachV, alive, polls, dpc, ptyHeld, lspc,
                 listed,
                 reapDue>>

\* os.Remove(errPath); serverCmd.Start(): the daemon process exists and
\* enters createAndAttachSession with TUCK_SERVER=1.
LauncherSpawn(l) ==
  /\ lpc[l] = "spawn"
  /\ errFile' = 0
  /\ alive' = [alive EXCEPT ![l] = TRUE]
  /\ dpc' = [dpc EXCEPT ![l] = "check1"]
  /\ lpc' = [lpc EXCEPT ![l] = "poll"]
  /\ UNCHANGED <<serverV, sockFile, jsonFile, detachV, polls, ptyHeld, lspc,
                 listed,
                 reapDue>>

\* One iteration of the wait loop: break if Exists; report the error file's
\* content and exit if it is there; break after the last iteration; else sleep.
LauncherPoll(l) ==
  /\ lpc[l] = "poll"
  /\ IF Exists
     THEN lpc' = [lpc EXCEPT ![l] = "final"] /\ UNCHANGED <<errFile, polls>>
     ELSE IF errFile # 0
     THEN /\ errFile' = 0
          /\ lpc' = [lpc EXCEPT ![l] = "failed"]
          /\ UNCHANGED polls
     ELSE IF polls[l] >= PollTicks - 1
     THEN lpc' = [lpc EXCEPT ![l] = "final"] /\ UNCHANGED <<errFile, polls>>
     ELSE /\ polls' = [polls EXCEPT ![l] = @ + 1]
          /\ UNCHANGED <<errFile, lpc>>
  /\ UNCHANGED <<serverV, sockFile, jsonFile, detachV, alive, dpc, ptyHeld,
                 lspc, listed,
                 reapDue>>

\* After the loop: if !Exists, report the error file or "server did not
\* start" and exit 1; else print "created" and attach.
LauncherFinal(l) ==
  /\ lpc[l] = "final"
  /\ IF Exists
     THEN lpc' = [lpc EXCEPT ![l] = "created"] /\ UNCHANGED errFile
     ELSE lpc' = [lpc EXCEPT ![l] = "failed"] /\ errFile' = 0
  /\ UNCHANGED <<serverV, sockFile, jsonFile, detachV, alive, polls, dpc,
                 ptyHeld, lspc, listed,
                 reapDue>>

\* ------------------------------- the daemon: createAndAttachSession, NewServer
\* The daemon runs the same existence check first: "already exists" on its
\* stderr, os.Exit(1), no error file.
DaemonCheck(d) ==
  /\ dpc[d] = "check1"
  /\ IF Exists
     THEN /\ dpc' = [dpc EXCEPT ![d] = "failed"]
          /\ alive' = [alive EXCEPT ![d] = FALSE]
     ELSE /\ dpc' = [dpc EXCEPT ![d] = "check2"]
          /\ UNCHANGED alive
  /\ UNCHANGED <<serverV, fileV, detachV, lpc, polls, ptyHeld, lspc, listed,
                 reapDue>>

\* NewServer: if Exists(name) { return nil, os.ErrExist }; runServer writes the
\* error to the error file and exits 1.
DaemonNewServerCheck(d) ==
  /\ dpc[d] = "check2"
  /\ IF Exists
     THEN /\ dpc' = [dpc EXCEPT ![d] = "failed"]
          /\ alive' = [alive EXCEPT ![d] = FALSE]
          /\ errFile' = d
     ELSE /\ dpc' = [dpc EXCEPT ![d] = "startPty"]
          /\ UNCHANGED <<alive, errFile>>
  /\ UNCHANGED <<serverV, sockFile, jsonFile, detachV, lpc, polls, ptyHeld,
                 lspc, listed,
                 reapDue>>

\* p, err := StartPTY(command): the child runs on a new PTY.
DaemonStartPTY(d) ==
  /\ dpc[d] = "startPty"
  /\ ptyHeld' = [ptyHeld EXCEPT ![d] = TRUE]
  /\ dpc' = [dpc EXCEPT ![d] = "listen"]
  /\ UNCHANGED <<serverV, fileV, detachV, alive, lpc, polls, lspc, listed,
                 reapDue>>

\* StartPTY fails (the command cannot be started): NewServer returns the
\* error with nothing acquired; runServer writes it to the error file, exit 1.
DaemonStartPTYFail(d) ==
  /\ dpc[d] = "startPty"
  /\ errFile' = d
  /\ dpc' = [dpc EXCEPT ![d] = "failed"]
  /\ alive' = [alive EXCEPT ![d] = FALSE]
  /\ UNCHANGED <<serverV, sockFile, jsonFile, detachV, lpc, polls, ptyHeld,
                 lspc, listed,
                 reapDue>>

\* net.Listen("unix", sockPath): bind creates the socket file, or fails when
\* the path exists; then p.Close(), the error goes to the error file, exit 1.
DaemonListen(d) ==
  /\ dpc[d] = "listen"
  /\ IF sockFile # 0
     THEN /\ ptyHeld' = [ptyHeld EXCEPT ![d] = FALSE]
          /\ errFile' = d
          /\ dpc' = [dpc EXCEPT ![d] = "failed"]
          /\ alive' = [alive EXCEPT ![d] = FALSE]
          /\ UNCHANGED sockFile
     ELSE /\ sockFile' = d
          /\ dpc' = [dpc EXCEPT ![d] = "save"]
          /\ UNCHANGED <<ptyHeld, errFile, alive>>
  /\ UNCHANGED <<serverV, jsonFile, detachV, lpc, polls, lspc, listed,
                 reapDue>>

\* sess.Save() with PID: os.Getpid(); NewServer returns and Run serves.
DaemonSave(d) ==
  /\ dpc[d] = "save"
  /\ jsonFile' = d
  /\ dpc' = [dpc EXCEPT ![d] = "serving"]
  /\ UNCHANGED <<serverV, sockFile, errFile, detachV, alive, lpc, polls,
                 ptyHeld, lspc, listed,
                 reapDue>>

\* sess.Save() fails: os.WriteFile has created the descriptor file or not
\* (it fails at the open or at the write); listener.Close() unlinks the socket
\* path, p.Close(); the error goes to the error file, exit 1.
DaemonSaveFail(d) ==
  /\ dpc[d] = "save"
  /\ \E left \in {jsonFile, d} : jsonFile' = left
  /\ sockFile' = IF sockFile = d THEN 0 ELSE sockFile
  /\ ptyHeld' = [ptyHeld EXCEPT ![d] = FALSE]
  /\ errFile' = d
  /\ dpc' = [dpc EXCEPT ![d] = "failed"]
  /\ alive' = [alive EXCEPT ![d] = FALSE]
  /\ UNCHANGED <<serverV, detachV, lpc, polls, lspc, listed,
                 reapDue>>

\* Shutdown, first half: s.listener.Close() unlinks the socket path;
\* s.pty.Close().
DaemonShutdownClose(d) ==
  /\ dpc[d] = "serving"
  /\ sockFile' = 0
  /\ ptyHeld' = [ptyHeld EXCEPT ![d] = FALSE]
  /\ dpc' = [dpc EXCEPT ![d] = "remove"]
  /\ UNCHANGED <<serverV, jsonFile, errFile, detachV, alive, lpc, polls, lspc,
                 listed,
                 reapDue>>

\* Shutdown, second half: Remove(name) removes the three paths, whoever made
\* the files; Run returns and the process ends.
DaemonShutdownRemove(d) ==
  /\ dpc[d] = "remove"
  /\ sockFile' = 0 /\ jsonFile' = 0 /\ errFile' = 0
  /\ dpc' = [dpc EXCEPT ![d] = "exited"]
  /\ alive' = [alive EXCEPT ![d] = FALSE]
  /\ UNCHANGED <<serverV, detachV, lpc, polls, ptyHeld, lspc, listed,
                 reapDue>>

\* The daemon is killed (SIGKILL, power loss): no handler runs, its files stay.
DaemonCrash(d) ==
  /\ alive[d]
  /\ alive' = [alive EXCEPT ![d] = FALSE]
  /\ dpc' = [dpc EXCEPT ![d] = "crashed"]
  /\ ptyHeld' = [ptyHeld EXCEPT ![d] = FALSE]
  /\ UNCHANGED <<serverV, fileV, detachV, lpc, polls, lspc, listed,
                 reapDue>>

\* --------------------------------------------------------------------- List
\* entries := os.ReadDir(dir); var sessions []*Session
ListReadDir ==
  /\ lspc = "idle"
  /\ listed' = {}
  /\ reapDue' = IF sockFile # 0 /\ ~alive[sockFile] THEN sockFile ELSE 0
  /\ lspc' = IF jsonFile # 0 THEN "visit" ELSE "ret"
  /\ UNCHANGED <<serverV, fileV, detachV, alive, lpc, polls, dpc, ptyHeld>>

\* The loop body for <name>.json: Load (skip on error); if the pid does not
\* run, Remove(name) and skip; else append the session.
ListVisit ==
  /\ lspc = "visit"
  /\ IF jsonFile = 0
     THEN UNCHANGED <<fileV, listed>>
     ELSE IF ~isProcessRunning(jsonFile)
     THEN /\ sockFile' = 0 /\ jsonFile' = 0 /\ errFile' = 0
          /\ UNCHANGED listed
     ELSE /\ listed' = listed \cup {jsonFile}
          /\ UNCHANGED fileV
  /\ lspc' = "ret"
  /\ UNCHANGED <<serverV, detachV, alive, lpc, polls, dpc, ptyHeld,
                 reapDue>>

\* return sessions, nil
ListReturn ==
  /\ lspc = "ret"
  /\ lspc' = "idle"
  /\ UNCHANGED <<serverV, fileV, detachV, alive, lpc, polls, dpc, ptyHeld,
                 listed,
                 reapDue>>

\* --------------------------------------------------------- specifications
\* ChildExit and Accept leave the history variable due to the specification:
\* the output path records it, the input path leaves it alone.
ChildExitDue ==
  /\ ChildExit
  /\ due' = [c \in Conns |-> IF c \in clients /\ due[c] = "no"
                             THEN "exit" ELSE due[c]]

AcceptDue(c) ==
  /\ Accept(c)
  /\ due' = [due EXCEPT ![c] = IF ptyExited THEN "late"
                               ELSE IF childState = "exited" THEN "exit"
                               ELSE "no"]

Reader == ReaderRead \/ ReaderReturn \/ ReaderAppend \/ ReaderTruncate
            \/ ReaderBroadcast

Waiter == WaiterSetExited \/ WaiterBroadcastExit \/ WaiterGrace

Shutdown == ShutdownCloseDone \/ ShutdownClose \/ ShutdownRemove

HandlerAttach(c) ==
  \/ HandlerRegister(c) \/ HandlerSnapshot(c) \/ HandlerSnapshotUnlock(c)
  \/ HandlerSendExit(c) \/ HandlerCloseConn(c)

HandlerDetach(c) == HandlerLoopEnd(c) \/ HandlerCleanup(c)

HandlerFrames(c) == HandlerInput(c) \/ HandlerResize(c) \/ HandlerResizeApply(c)

\* The output path: the child writes and exits, the PTY-reader fills the replay
\* buffer and broadcasts, clients attach and leave, the child-waiter shuts the
\* server down. Clients send no frames.
NextStream ==
  \/ ChildWrite \/ ChildExitDue \/ Reader \/ Waiter \/ Shutdown \/ RunReturn
  \/ \E c \in StreamConns :
       \/ AcceptDue(c) \/ HandlerAttach(c) \/ HandlerDetach(c)
       \/ ClientDisconnect(c)

SpecStream == InitServer /\ [][NextStream]_vars

\* The input path: clients attach, send Resize and Input frames and leave
\* while the child is silent; the child exits and the server shuts down.
NextResize ==
  \/ (ChildExit /\ UNCHANGED due)
  \/ ReaderReturn \/ Waiter \/ Shutdown \/ RunReturn
  \/ \E c \in Conns :
       \/ (Accept(c) /\ UNCHANGED due)
       \/ HandlerAttach(c) \/ HandlerDetach(c) \/ HandlerFrames(c)
       \/ ClientDisconnect(c)

SpecResize == InitServer /\ [][NextResize]_vars

\* The input path with clients that send frames readMessage rejects.
NextBadFrame == NextResize \/ \E c \in Conns : HandlerBadFrame(c)

SpecBadFrame == InitServer /\ [][NextBadFrame]_vars

\* The output path with clients that come one after another: a connection is
\* accepted once the handler of the one before it has ended.
AcceptNext(c) ==
  /\ \A b \in Conns : b < c => hpc[b] = "end"
  /\ AcceptDue(c)

NextReattach ==
  \/ ChildWrite \/ ChildExitDue \/ Reader \/ Waiter \/ Shutdown \/ RunReturn
  \/ \E c \in Conns :
       \/ AcceptNext(c) \/ HandlerAttach(c) \/ HandlerDetach(c)
       \/ ClientDisconnect(c)

SpecReattach == InitServer /\ [][NextReattach]_vars

\* The fan-out, up to the broadcast of Exit: the clients connect before the
\* child's first output, then output and Exit are broadcast while clients
\* leave at any time.
AcceptEarly(c) ==
  /\ emitted = 0 /\ childState = "running"
  /\ Accept(c) /\ UNCHANGED due

NextFanout ==
  \/ ChildWrite \/ (ChildExit /\ UNCHANGED due) \/ Reader
  \/ WaiterSetExited \/ WaiterBroadcastExit
  \/ \E c \in Conns :
       \/ AcceptEarly(c) \/ HandlerAttach(c) \/ HandlerDetach(c)
       \/ ClientDisconnect(c)

SpecFanout == InitServer /\ [][NextFanout]_vars

\* The output path with its scheduling: the child-waiter goroutine and the
\* Shutdown it calls keep taking their steps (Wait returns once the child has
\* exited, locks are released, sleeps end, writes to clients complete or
\* fail). Nothing makes the child exit or a client connect.
SpecGrace ==
  /\ InitServer /\ [][NextStream]_vars
  /\ WF_vars(Waiter) /\ WF_vars(Shutdown)

\* The output path, with Shutdown invoked again after it has returned.
NextShutdown == NextStream \/ ShutdownAgain

SpecShutdown == InitServer /\ [][NextShutdown]_vars

\* The client's input loop alone, for every key configuration and every way
\* the terminal's bytes are split into reads.
InitDetach == InitServerState /\ InitClient /\ RegistryServing

NextDetach == InputLoopTop \/ HandleInputRead

SpecDetach == InitDetach /\ [][NextDetach]_vars

\* The frame reader alone, on every stream.
InitFrame ==
  /\ InitServerFields /\ ClientAtRest /\ RegistryServing
  /\ rStream \in Streams /\ rPos = 0 /\ rResult = NoResult
  /\ written = <<>> /\ got = <<>>

NextFrame == ReadMessage

SpecFrame == InitFrame /\ [][NextFrame]_vars

\* The frames of connection 1 write by write, up to the Exit broadcast: the
\* PTY-reader's broadcasts, the child-waiter's Exit broadcast, the handler's
\* snapshot and Exit, and the client's readMessage on what arrives. A task
\* that takes mu.Lock waits while the PTY-reader is inside broadcast.
InBroadcast == rpc = "bcastPayload"

NextWire ==
  \/ ChildWrite \/ ChildExitDue
  \/ ReaderRead \/ ReaderReturn \/ ReaderAppend \/ ReaderTruncate
  \/ WireReaderHeader \/ WireReaderPayload
  \/ (~InBroadcast /\ WaiterSetExited) \/ WireWaiterExit
  \/ \E c \in StreamConns :
       \/ AcceptDue(c)
       \/ (~InBroadcast /\ HandlerRegister(c))
       \/ WireSnapHeader(c) \/ WireSnapPayload(c)
       \/ HandlerSnapshotUnlock(c) \/ WireHandlerExit(c)
       \/ (~InBroadcast /\ HandlerCloseConn(c))
  \/ ReadFrame

SpecWire == InitServer /\ [][NextWire]_vars

\* One writer and one reader on a stream: frames are written one after
\* another and read back.
NextCodec == WriteFrame \/ ReadFrame

SpecCodec == InitServer /\ [][NextCodec]_vars

\* The client process: both loops, the frames and the connection's end as
\* the server delivers them, the terminal's input, and a terminating signal.
\* The loops' own steps are taken when they can be; nothing makes terminal
\* input, frames or signals arrive.
HandleInput == InputLoopTop \/ HandleInputRead \/ HandleInputError

HandleOutput ==
  OutputLoopTop \/ HandleOutputFrame \/ HandleOutputExit \/ HandleOutputError

NextClient == HandleInput \/ HandleOutput \/ ClientSignal

SpecClient ==
  /\ InitDetach /\ [][NextClient]_vars
  /\ WF_vars(InputLoopTop) /\ WF_vars(OutputLoopTop)

\* Client.close step by step, as the input loop (through doDetach) and the
\* output loop (after a failed readMessage) both run it with no lock:
\*   select { case <-c.done: default: close(c.done) }
\* The select's receive and the close are two operations; closing a channel
\* that is already closed is a run-time panic, which ends the process with
\* the terminal still raw.

\* handleInput's turn as in HandleInputRead, but on a detach the task only
\* enters doDetach -> close: it stands before the select.
HandleInputReadClose ==
  /\ cexit = "no" /\ ipc = "read" /\ Len(consumed) < MaxInput
  /\ \E n \in 1..Min(MaxRead, MaxInput - Len(consumed)) :
       \E bytes \in [1..n -> Alphabet] :
         LET r == ScanRead(ClientState, bytes, <<>>) IN
           /\ consumed' = consumed \o bytes
           /\ lastRead' = bytes
           /\ afterNewline' = r.st.an
           /\ sawEscapeChar' = r.st.saw
           /\ inEscSeq' = r.st.esc
           /\ forwarded' = IF r.detach THEN forwarded
                           ELSE forwarded \o r.toSend
           /\ ipc' = IF r.detach THEN "closeSelect" ELSE "top"
  /\ UNCHANGED <<detachKeys, cdone, termRaw, cexit, lastOut, opc,
                 serverV, fileV, regV>>

\* The input loop's select in close: done already closed, nothing to do;
\* else the default branch is taken.
InputCloseSelect ==
  /\ cexit = "no" /\ ipc = "closeSelect"
  /\ ipc' = IF cdone THEN "restore" ELSE "closeDone"
  /\ UNCHANGED <<detachKeys, afterNewline, sawEscapeChar, inEscSeq, cdone,
                 consumed, lastRead, lastOut, forwarded, opc, termRaw, cexit,
                 serverV, fileV, regV>>

\* The input loop's close(c.done).
InputCloseDone ==
  /\ cexit = "no" /\ ipc = "closeDone"
  /\ IF cdone
       THEN cexit' = "panic" /\ ipc' = "end" /\ UNCHANGED cdone
       ELSE cdone' = TRUE /\ ipc' = "restore" /\ UNCHANGED cexit
  /\ UNCHANGED <<detachKeys, afterNewline, sawEscapeChar, inEscSeq,
                 consumed, lastRead, lastOut, forwarded, opc, termRaw,
                 serverV, fileV, regV>>

\* The rest of doDetach: restore the terminal, print the message;
\* handleInput returns nil and the process ends.
InputDetachReturn ==
  /\ cexit = "no" /\ ipc = "restore"
  /\ termRaw' = FALSE /\ cexit' = "detach" /\ ipc' = "end"
  /\ UNCHANGED <<detachKeys, afterNewline, sawEscapeChar, inEscSeq, cdone,
                 consumed, lastRead, lastOut, forwarded, opc,
                 serverV, fileV, regV>>

\* readMessage fails in handleOutput: the task enters close and stands
\* before the select.
HandleOutputErrorClose ==
  /\ cexit = "no" /\ opc = "read"
  /\ opc' = "closeSelect"
  /\ UNCHANGED <<detachKeys, afterNewline, sawEscapeChar, inEscSeq, cdone,
                 consumed, lastRead, lastOut, forwarded, ipc, termRaw, cexit,
                 serverV, fileV, regV>>

\* The output loop's select in close.
OutputCloseSelect ==
  /\ cexit = "no" /\ opc = "closeSelect"
  /\ opc' = IF cdone THEN "end" ELSE "closeDone"
  /\ UNCHANGED <<detachKeys, afterNewline, sawEscapeChar, inEscSeq, cdone,
                 consumed, lastRead, lastOut, forwarded, ipc, termRaw, cexit,
                 serverV, fileV, regV>>

\* The output loop's close(c.done); handleOutput returns.
OutputCloseDone ==
  /\ cexit = "no" /\ opc = "closeDone"
  /\ IF cdone
       THEN cexit' = "panic" /\ UNCHANGED cdone
       ELSE cdone' = TRUE /\ UNCHANGED cexit
  /\ opc' = "end"
  /\ UNCHANGED <<detachKeys, afterNewline, sawEscapeChar, inEscSeq,
                 consumed, lastRead, lastOut, forwarded, ipc, termRaw,
                 serverV, fileV, regV>>

\* The client's two loops with close taken apart: terminal input with the
\* detach keys in it, and the connection's end.
NextClose ==
  \/ InputLoopTop \/ HandleInputReadClose
  \/ InputCloseSelect \/ InputCloseDone \/ InputDetachReturn
  \/ OutputLoopTop \/ HandleOutputErrorClose
  \/ OutputCloseSelect \/ OutputCloseDone

SpecClose == InitDetach /\ [][NextClose]_vars

\* ------------------------------------------------ the server, lock by lock
\* Every critical section of s.mu taken apart: the task first acquires the
\* lock (sync.RWMutex: Lock needs no holder at all, RLock needs no writer),
\* then runs the section and releases it. outputBufMu is taken and released
\* by ReaderAppend / ReaderTruncate and by the handler's snapshot.
\* The tasks: handler c is task c; the PTY-reader and the child-waiter.
ReaderTask == NConn + 1
WaiterTask == NConn + 2

\* The part of the state the acquisition of s.mu leaves alone.
heldV == <<coreV, fileV, detachV, regV, frameV>>

\* mu after Lock, RLock, Unlock, RUnlock by task t.
Locked(t) == [mu EXCEPT !.w = {t}]
RLocked(t) == [mu EXCEPT !.r = @ \cup {t}]
Unlocked == [mu EXCEPT !.w = {}]
RUnlocked(t) == [mu EXCEPT !.r = @ \ {t}]
CanLock(t) == mu.w = {} /\ mu.r = {}
CanRLock(t) == mu.w = {} /\ t \notin mu.r

\* broadcast: s.mu.RLock()
ReaderRLock ==
  /\ ~serverExited /\ rpc = "bcast" /\ CanRLock(ReaderTask)
  /\ mu' = RLocked(ReaderTask)
  /\ UNCHANGED heldV

\* broadcast: the writes to every registered connection; s.mu.RUnlock()
ReaderBroadcastRUnlock ==
  /\ ~serverExited /\ rpc = "bcast" /\ ReaderTask \in mu.r
  /\ sent' = Broadcast(sent, MsgOutput, rbuf)
  /\ rpc' = "read"
  /\ mu' = RUnlocked(ReaderTask)
  /\ UNCHANGED <<childV, rbuf, bufV, waiterV, flagV, clientV, connV, sizeV,
                 ghostV, fileV, ptyIn, detachV, regV, frameV>>

\* The child-waiter's acquisitions: s.mu.Lock() once s.pty.Wait() has
\* returned; s.mu.RLock() in broadcast and in each turn of the grace loop;
\* s.mu.Lock() in Shutdown.
WaiterAcquire ==
  /\ ~serverExited /\ WaiterTask \notin mu.w \cup mu.r
  /\ wpc \in {"wait", "bcastExit", "grace", "sdLock"}
  /\ wpc = "wait" => childState = "exited"
  /\ IF wpc \in {"wait", "sdLock"}
     THEN CanLock(WaiterTask) /\ mu' = Locked(WaiterTask)
     ELSE CanRLock(WaiterTask) /\ mu' = RLocked(WaiterTask)
  /\ UNCHANGED heldV

\* s.ptyExited = true; s.mu.Unlock()
WaiterSetExitedUnlock ==
  /\ ~serverExited /\ wpc = "wait" /\ WaiterTask \in mu.w
  /\ ptyExited' = TRUE
  /\ wpc' = "bcastExit"
  /\ mu' = Unlocked
  /\ UNCHANGED <<childV, readerV, bufV, ticks, hadClient, done, listenerClosed,
                 ptyClosed, serverExited, clientV, connV, sizeV, ghostV, fileV,
                 sent, ptyIn, detachV, regV, frameV>>

\* broadcast(MsgExit, nil): the writes; s.mu.RUnlock()
WaiterBroadcastExitRUnlock ==
  /\ ~serverExited /\ wpc = "bcastExit" /\ WaiterTask \in mu.r
  /\ sent' = Broadcast(sent, MsgExit, <<>>)
  /\ wpc' = "grace"
  /\ mu' = RUnlocked(WaiterTask)
  /\ UNCHANGED <<childV, readerV, bufV, ticks, flagV, clientV, connV, sizeV,
                 ghostV, fileV, ptyIn, detachV, regV, frameV>>

\* hadClient := s.hadClient; s.mu.RUnlock(); break, or sleep 100 ms.
WaiterGraceRUnlock ==
  /\ ~serverExited /\ wpc = "grace" /\ WaiterTask \in mu.r
  /\ IF ticks < GraceTicks /\ ~hadClient
     THEN ticks' = ticks + 1 /\ wpc' = wpc
     ELSE ticks' = ticks /\ wpc' = "shutdown"
  /\ mu' = RUnlocked(WaiterTask)
  /\ UNCHANGED <<childV, readerV, bufV, flagV, clientV, connV, sizeV, ghostV,
                 fileV, sent, ptyIn, detachV, regV, frameV>>

\* Shutdown: s.listener.Close(); s.pty.Close()
ShutdownCloseListener ==
  /\ ~serverExited /\ wpc = "sdClose"
  /\ listenerClosed' = TRUE
  /\ sockFile' = 0
  /\ ptyClosed' = TRUE
  /\ wpc' = "sdLock"
  /\ UNCHANGED <<childV, readerV, bufV, ticks, ptyExited, hadClient, done,
                 serverExited, clientV, connV, sizeV, ghostV, jsonFile,
                 errFile, sent, ptyIn, restV>>

\* Shutdown: for conn := range s.clients { conn.Close() }; s.mu.Unlock()
ShutdownCloseConnsUnlock ==
  /\ ~serverExited /\ wpc = "sdLock" /\ WaiterTask \in mu.w
  /\ connClosed' = [c \in Conns |-> connClosed[c] \/ c \in clients]
  /\ wpc' = "sdRemove"
  /\ mu' = Unlocked
  /\ UNCHANGED <<childV, readerV, bufV, ticks, flagV, clientV, clientGone,
                 sizeV, ghostV, fileV, sent, ptyIn, detachV, regV, frameV>>

\* The window sizes of the Resize frames here: the largest one.
LockSizes == {<<MaxRows, MaxCols>>}

\* The positions of handleClient that stand before s.mu.Lock() and before
\* s.mu.RLock().
HandlerLockAt == {"accepted", "delete", "resizeLock", "cleanup"}
HandlerRLockAt == {"readExited", "inputLock"}

\* handleClient's acquisitions of s.mu.
HandlerAcquire(c) ==
  /\ ~serverExited /\ c \notin mu.w \cup mu.r
  /\ hpc[c] \in HandlerLockAt \cup HandlerRLockAt
  /\ IF hpc[c] \in HandlerLockAt
     THEN CanLock(c) /\ mu' = Locked(c)
     ELSE CanRLock(c) /\ mu' = RLocked(c)
  /\ UNCHANGED heldV

\* HandlerRegisterUnlock, with s.mu still held on the way to the snapshot.
HandlerRegisterHold(c) ==
  /\ ~serverExited /\ hpc[c] = "accepted" /\ c \in mu.w
  /\ clients' = clients \cup {c}
  /\ info' = [info EXCEPT ![c] = <<0, 0>>]
  /\ hadClient' = TRUE
  /\ jsonFile' = 1
  /\ hpc' = [hpc EXCEPT ![c] = "snapshot"]
  /\ mu' = mu
  /\ UNCHANGED <<childV, readerV, bufV, waiterV, ptyExited, done,
                 listenerClosed, ptyClosed, serverExited, nInputs,
                 connV, sizeV, ghostV, sockFile, errFile, sent, ptyIn,
                 detachV, regV, frameV>>

\* s.clients[conn] = &clientInfo{}; s.hadClient = true;
\* s.session.LastActive = now; s.session.Save(); s.mu.Unlock()
HandlerRegisterUnlock(c) ==
  /\ ~serverExited /\ hpc[c] = "accepted" /\ c \in mu.w
  /\ clients' = clients \cup {c}
  /\ info' = [info EXCEPT ![c] = <<0, 0>>]
  /\ hadClient' = TRUE
  /\ jsonFile' = 1
  /\ hpc' = [hpc EXCEPT ![c] = "snapshot"]
  /\ mu' = Unlocked
  /\ UNCHANGED <<childV, readerV, bufV, waiterV, ptyExited, done,
                 listenerClosed, ptyClosed, serverExited, nInputs,
                 connV, sizeV, ghostV, sockFile, errFile, sent, ptyIn,
                 detachV, regV, frameV>>

\* s.outputBufMu.Unlock() after the snapshot.
HandlerSnapshotRelease(c) ==
  /\ ~serverExited /\ hpc[c] = "snapUnlock"
  /\ outputBufMu' = "free"
  /\ hpc' = [hpc EXCEPT ![c] = "readExited"]
  /\ UNCHANGED <<childV, readerV, outputBuf, hist, waiterV, flagV, clients,
                 info, nInputs, connV, sizeV, ghostV, fileV, sent, ptyIn,
                 restV>>

\* ptyExited := s.ptyExited; s.mu.RUnlock(); if ptyExited { ... } else the
\* read loop is entered.
HandlerReadExitedRUnlock(c) ==
  /\ ~serverExited /\ hpc[c] = "readExited" /\ c \in mu.r
  /\ hpc' = [hpc EXCEPT ![c] = IF ptyExited THEN "sendExit" ELSE "loop"]
  /\ mu' = RUnlocked(c)
  /\ UNCHANGED <<childV, readerV, bufV, waiterV, flagV, clients, info,
                 nInputs, connV, sizeV, ghostV, fileV, sent, ptyIn,
                 detachV, regV, frameV>>

\* After the Exit frame: conn.Close()
HandlerConnClose(c) ==
  /\ ~serverExited /\ hpc[c] = "closeConn"
  /\ connClosed' = [connClosed EXCEPT ![c] = TRUE]
  /\ hpc' = [hpc EXCEPT ![c] = "delete"]
  /\ UNCHANGED <<childV, readerV, bufV, waiterV, flagV, clients, info,
                 nInputs, clientGone, sizeV, ghostV, fileV, sent, ptyIn,
                 restV>>

\* delete(s.clients, conn); s.mu.Unlock(); return
HandlerDeleteUnlock(c) ==
  /\ ~serverExited /\ hpc[c] = "delete" /\ c \in mu.w
  /\ clients' = clients \ {c}
  /\ hpc' = [hpc EXCEPT ![c] = "end"]
  /\ mu' = Unlocked
  /\ UNCHANGED <<childV, readerV, bufV, waiterV, flagV, info, nInputs,
                 connV, sizeV, ghostV, fileV, sent, ptyIn,
                 detachV, regV, frameV>>

\* readMessage returns an Input frame.
HandlerReadInput(c) ==
  /\ ~serverExited /\ hpc[c] = "loop" /\ ~connClosed[c] /\ ~clientGone[c]
  /\ nInputs[c] < MaxInputs
  /\ nInputs' = [nInputs EXCEPT ![c] = @ + 1]
  /\ hpc' = [hpc EXCEPT ![c] = "inputLock"]
  /\ UNCHANGED <<childV, readerV, bufV, waiterV, flagV, clients, info,
                 connV, sizeV, ghostV, fileV, sent, ptyIn,
                 restV>>

\* case MsgInput, under s.mu.RLock: the resize to this client's stored size;
\* s.mu.RUnlock(); s.pty.File.Write(data)
HandlerInputRUnlock(c) ==
  /\ ~serverExited /\ hpc[c] = "inputLock" /\ c \in mu.r
  /\ IF HasSize(info[c])
     THEN /\ ptySize' = PtyResize(info[c])
          /\ lastWriter' = c
          /\ lastFrameSize' = info[c]
     ELSE UNCHANGED sizeV
  /\ ptyIn' = IF ptyClosed THEN ptyIn ELSE Append(ptyIn, c)
  /\ hpc' = [hpc EXCEPT ![c] = "loop"]
  /\ mu' = RUnlocked(c)
  /\ UNCHANGED <<childV, readerV, bufV, waiterV, flagV, clients, info,
                 nInputs, connV, ghostV, fileV, sent,
                 detachV, regV, frameV>>

\* readMessage returns a Resize frame with len(data) >= 4 (counted with the
\* Input frames here, to bound the frames a handler serves).
HandlerReadResize(c) ==
  /\ ~serverExited /\ hpc[c] = "loop" /\ ~connClosed[c] /\ ~clientGone[c]
  /\ nInputs[c] < MaxInputs
  /\ nInputs' = [nInputs EXCEPT ![c] = @ + 1]
  /\ hpc' = [hpc EXCEPT ![c] = "resizeLock"]
  /\ UNCHANGED <<childV, readerV, bufV, waiterV, flagV, clients, info,
                 connV, sizeV, ghostV, fileV, sent, ptyIn,
                 restV>>

\* case MsgResize, under s.mu.Lock: the frame's rows, cols are stored in
\* s.clients[conn]; s.mu.Unlock()
HandlerResizeUnlock(c) ==
  /\ ~serverExited /\ hpc[c] = "resizeLock" /\ c \in mu.w
  /\ \E size \in LockSizes : info' = [info EXCEPT ![c] = size]
  /\ hpc' = [hpc EXCEPT ![c] = "resizeApply"]
  /\ mu' = Unlocked
  /\ UNCHANGED <<childV, readerV, bufV, waiterV, flagV, clients, nInputs,
                 connV, sizeV, ghostV, fileV, sent, ptyIn,
                 detachV, regV, frameV>>

\* The deferred cleanup under s.mu.Lock: delete, the resize to a remaining
\* client's size; s.mu.Unlock(); conn.Close()
HandlerCleanupUnlock(c) ==
  /\ ~serverExited /\ hpc[c] = "cleanup" /\ c \in mu.w
  /\ clients' = clients \ {c}
  /\ info' = [info EXCEPT ![c] = <<0, 0>>]
  /\ LET rest == {d \in clients \ {c} : HasSize(info[d])}
     IN  IF rest = {}
         THEN UNCHANGED sizeV
         ELSE \E d \in rest :
                /\ ptySize' = PtyResize(info[d])
                /\ lastWriter' = d
                /\ lastFrameSize' = lastFrameSize
  /\ connClosed' = [connClosed EXCEPT ![c] = TRUE]
  /\ hpc' = [hpc EXCEPT ![c] = "end"]
  /\ mu' = Unlocked
  /\ UNCHANGED <<childV, readerV, bufV, waiterV, flagV, nInputs, clientGone,
                 ghostV, fileV, sent, ptyIn,
                 detachV, regV, frameV>>

\* The steps that end a critical section of s.mu, and those that end one of
\* s.outputBufMu.
MuRelease ==
  \/ ReaderBroadcastRUnlock
  \/ WaiterSetExitedUnlock \/ WaiterBroadcastExitRUnlock
  \/ WaiterGraceRUnlock \/ ShutdownCloseConnsUnlock
  \/ \E c \in Conns :
       \/ HandlerRegisterUnlock(c) \/ HandlerReadExitedRUnlock(c)
       \/ HandlerDeleteUnlock(c) \/ HandlerInputRUnlock(c)
       \/ HandlerResizeUnlock(c) \/ HandlerCleanupUnlock(c)

BufRelease ==
  ReaderTruncate \/ \E c \in Conns : HandlerSnapshotRelease(c)

\* The server with every acquisition and release of its two locks a step of
\* its own.
NextLocks ==
  \/ (ChildWrite /\ emitted < LockBytes) \/ (ChildExit /\ UNCHANGED due)
  \/ ReaderRead \/ ReaderReturn \/ ReaderAppend \/ ReaderRLock
  \/ WaiterAcquire \/ ShutdownCloseDone \/ ShutdownCloseListener
  \/ ShutdownRemove \/ RunReturn
  \/ MuRelease \/ BufRelease
  \/ \E c \in Conns :
       \/ (Accept(c) /\ UNCHANGED due)
       \/ HandlerAcquire(c) \/ HandlerSnapshot(c) \/ HandlerSendExit(c)
       \/ HandlerConnClose(c) \/ HandlerLoopEnd(c)
       \/ HandlerReadInput(c) \/ HandlerReadResize(c)
       \/ HandlerResizeApply(c) \/ ClientDisconnect(c)

SpecLocks == InitServer /\ [][NextLocks]_vars

\* Concurrent creations of one name, daemon shutdown and crash, and List.
InitReg == InitServerState /\ ClientAtRest /\ InitRegistry

Launcher(l) ==
  LauncherCheck(l) \/ LauncherSpawn(l) \/ LauncherPoll(l) \/ LauncherFinal(l)

Daemon(d) ==
  \/ DaemonCheck(d) \/ DaemonNewServerCheck(d) \/ DaemonStartPTY(d)
  \/ DaemonListen(d) \/ DaemonSave(d)
  \/ DaemonShutdownClose(d) \/ DaemonShutdownRemove(d) \/ DaemonCrash(d)

List == ListReadDir \/ ListVisit \/ ListReturn

NextRegistry == List \/ \E p \in Procs : Launcher(p) \/ Daemon(p)

SpecRegistry == InitReg /\ [][NextRegistry]_vars

\* Concurrent creations of one name, with daemons whose StartPTY or Save
\* fails.
DaemonStartup(d) == Daemon(d) \/ DaemonStartPTYFail(d) \/ DaemonSaveFail(d)

NextStartup == \E p \in Procs : Launcher(p) \/ DaemonStartup(p)

SpecStartup == InitReg /\ [][NextStartup]_vars

\* ================================================================== claims
\* The bytes of the Output frames written to connection c, concatenated.
RECURSIVE OutBytesOf(_)
OutBytesOf(fs) ==
  IF fs = <<>> THEN <<>>
  ELSE (IF Head(fs).type = MsgOutput THEN Head(fs).data ELSE <<>>)
         \o OutBytesOf(Tail(fs))

OutBytes(c) == OutBytesOf(sent[c])

HasExit(c) == \E i \in 1..Len(sent[c]) : sent[c][i].type = MsgExit

ServerClosed(c) == connClosed[c] \/ serverExited

\* The last n elements of a sequence.
LastN(q, n) == SubSeq(q, Len(q) - n + 1, Len(q))

\* C1: what a client is sent (replay snapshot, then the Output frames) holds
\* each PTY byte exactly once and in emission order, from some point of the
\* history on: consecutive bytes of the stream are consecutive bytes of the
\* history (a byte is its position in the history), and once the PTY-reader
\* is between reads a client in its read loop has been sent the history up to
\* its last byte.
C1_ExactlyOnceInOrder ==
  \A c \in Conns :
    LET b == OutBytes(c) IN
      /\ \A i \in 1..(Len(b) - 1) : b[i + 1] = b[i] + 1
      /\ (hpc[c] = "loop" /\ ConnOpen(c) /\ rpc \in {"read", "end"}
            /\ hist # <<>>)
           => (b # <<>> /\ b[Len(b)] = Len(hist))

\* C3: an Exit frame is sent only when the child is reaped and the PTY-reader
\* has read and broadcast everything the child wrote; no connection is sent
\* an Output frame after an Exit frame.
C3_ExitAfterFinalOutput ==
  \A c \in Conns :
    /\ HasExit(c) => (ptyExited /\ ptyPending = <<>> /\ rpc \in {"read", "end"})
    /\ \A i, j \in 1..Len(sent[c]) :
         (i < j /\ sent[c][i].type = MsgExit) => sent[c][j].type # MsgOutput

\* C4: a client registered when the child exits, or accepted after that, and
\* still connected, has been sent Exit when the server has closed its
\* connection; a client accepted after ptyExited was set is sent at most the
\* snapshot, then Exit, and its handler never reads a frame.
C4_ExitBeforeClose ==
  \A c \in Conns :
    /\ (due[c] # "no" /\ ServerClosed(c) /\ ~clientGone[c]) => HasExit(c)
    /\ due[c] = "late" =>
         /\ hpc[c] \notin {"loop", "resizeApply", "cleanup"}
         /\ \A i \in 1..Len(sent[c]) :
              sent[c][i].type = MsgOutput => i = 1

\* C5: whenever the replay mutex is free, the replay buffer is the last
\* min(|H|, cap) bytes of the history H of bytes appended so far.
C5_ReplayIsSuffix ==
  outputBufMu = "free" =>
    /\ Len(outputBuf) <= ReplayCap
    /\ outputBuf = LastN(hist, Min(Len(hist), ReplayCap))

\* C5 witness: the history has outgrown the cap and the buffer, full, has had
\* its front evicted.
C5_Witness ==
  /\ outputBufMu = "free" /\ Len(hist) > ReplayCap
  /\ Len(outputBuf) = ReplayCap /\ outputBuf[1] # hist[1]

\* No handler is in the middle of a Resize frame (between storing the size and
\* resizing the PTY).
Quiescent == \A c \in Conns : hpc[c] # "resizeApply"

\* An Input frame of connection c is handled in this step.
InputStep(c) == nInputs'[c] = nInputs[c] + 1

\* C6 as stated: between frames the PTY has the size set by the most recent
\* Resize frame or sized Input frame (taken here for nonzero sizes only), and
\* an Input of a client whose stored size is {0,0} does not change the PTY
\* size.
C6_LastFrameWins ==
  /\ [](Quiescent /\ ~ptyClosed /\ lastFrameSize # <<>>
            /\ lastFrameSize[1] > 0 /\ lastFrameSize[2] > 0
          => ptySize = lastFrameSize)
  /\ [][\A c \in Conns : (InputStep(c) /\ info[c] = <<0, 0>>)
          => ptySize' = ptySize]_vars

\* C6 amended: between frames the PTY has the stored size of the client whose
\* size it was last set to, by that client's Resize frame, by its sized Input
\* frame, or by the cleanup of a handler that ended and picked it among the
\* remaining clients; an Input of a client whose stored rows or cols is 0 does
\* not change the PTY size.
C6_LastWriterWins ==
  /\ [](Quiescent /\ ~ptyClosed /\ lastWriter \in clients
          => ptySize = info[lastWriter])
  /\ [][\A c \in Conns : (InputStep(c) /\ ~(info[c][1] > 0 /\ info[c][2] > 0))
          => ptySize' = ptySize]_vars

\* C6 witness: two clients with different nonzero sizes are registered and
\* the PTY has the size of the one that wrote last, after an Input frame.
C6_Witness ==
  /\ Quiescent /\ ~ptyClosed /\ lastWriter \in clients
  /\ nInputs[lastWriter] > 0
  /\ ptySize = info[lastWriter] /\ ptySize[1] > 0 /\ ptySize[2] > 0
  /\ \E d \in clients \ {lastWriter} :
       info[d][1] > 0 /\ info[d][2] > 0 /\ info[d] # ptySize

\* C7: a Resize frame with rows = 0 or cols = 0 leaves the PTY size as it is;
\* one with both nonzero sets the (open) PTY to exactly its values.
C7_ZeroResizeIgnored ==
  [][\A c \in Conns :
       (hpc[c] = "resizeApply" /\ hpc'[c] = "loop") =>
          IF info[c][1] = 0 \/ info[c][2] = 0
          THEN ptySize' = ptySize
          ELSE ptyClosed \/ ptySize' = info[c]]_vars

\* The emission of the state machine over a whole input, byte by byte: each
\* byte is forwarded as it is accepted, up to the detach point.
RECURSIVE Emission(_, _)
Emission(st, bytes) ==
  IF bytes = <<>> THEN <<>>
  ELSE LET r == HandleByte(st, Head(bytes)) IN
         IF r.detach THEN <<>> ELSE r.out \o Emission(r.st, Tail(bytes))

\* C2: for every input and key configuration, what the client has forwarded
\* in Input frames is the input read so far with only the documented
\* exceptions applied (the detach byte or sequence ends the stream, a doubled
\* escape is forwarded once, an escape character waits for the next byte):
\* every byte before the detach point is forwarded, however the input is
\* split into reads.
C2_ForwardedIsInput ==
  forwarded = Emission([an |-> TRUE, saw |-> 0, esc |-> FALSE], consumed)

\* C8: at most one daemon serves the name; a creation whose daemon failed is
\* not reported as created; a failed daemon keeps no PTY, socket or
\* descriptor.
C8_OneDaemonPerName ==
  /\ Cardinality({d \in Procs : dpc[d] = "serving"}) <= 1
  /\ \A l \in Procs : lpc[l] = "created" => dpc[l] # "failed"
  /\ \A d \in Procs :
       dpc[d] = "failed" => (~ptyHeld[d] /\ sockFile # d /\ jsonFile # d)

\* C9 as stated: Exists holds iff the socket file exists and the pid recorded
\* in the descriptor is alive.
C9_ExistsIffSocketAndPidAlive ==
  Exists <=> (sockFile # 0 /\ jsonFile # 0 /\ alive[jsonFile])

\* C9 amended: Exists holds iff the socket file exists, whatever the
\* descriptor records; a daemon's crash does not change it.
C9_ExistsIffSocket ==
  /\ [](Exists <=> sockFile # 0)
  /\ [][\A d \in Procs : (alive[d] /\ dpc'[d] = "crashed")
          => (Exists' <=> Exists)]_vars

\* C9 witness: after a crash the socket and the descriptor are there, the
\* recorded pid is dead, and Exists holds.
C9_Witness ==
  /\ Exists /\ jsonFile # 0 /\ ~alive[jsonFile]
  /\ dpc[jsonFile] = "crashed"

\* C10 as stated: when List returns, the pid of every entry it returns is
\* alive.
C10_AliveAtReturn ==
  [][(lspc = "ret" /\ lspc' = "idle") => \A p \in listed : alive[p]]_vars

\* C10 amended: List collects an entry only if its pid is alive when List
\* probes it; an entry found stale at the probe is removed with its files and
\* omitted.
C10_AliveWhenProbed ==
  [][(lspc = "visit" /\ lspc' = "ret") =>
        /\ \A p \in listed' : alive[p]
        /\ (jsonFile # 0 /\ ~alive[jsonFile]) =>
             (listed' = {} /\ sockFile' = 0 /\ jsonFile' = 0 /\ errFile' = 0)]_vars

\* C10 witness: a first daemon crashed and was reaped, a second one serves the
\* name and List has collected it.
C10_Witness ==
  /\ lspc = "ret" /\ listed = {2} /\ alive[2]
  /\ dpc[1] = "crashed" /\ dpc[2] = "serving"

\* C11: when a List call has read the directory while the socket of a dead
\* daemon was there, then as that call returns neither that daemon's socket
\* nor its descriptor exists.
C11_StaleReaped ==
  [][(lspc = "ret" /\ lspc' = "idle" /\ reapDue # 0)
       => (sockFile' # reapDue /\ jsonFile' # reapDue)]_vars

\* C12: Shutdown is idempotent: done, once closed, stays closed; the teardown
\* is entered only by the invocation that closes done; an invocation that
\* finds done closed returns and changes nothing.
C12_ShutdownIdempotent ==
  /\ [][done => done']_vars
  /\ [][(wpc' = "sdClose" /\ wpc # "sdClose") => (~done /\ done')]_vars
  /\ [][(wpc = "shutdown" /\ done /\ wpc' # wpc)
          => (wpc' = "end" /\ UNCHANGED <<flagV, connV, fileV, clients, sent>>)]_vars

\* C12 witness: Shutdown has torn the server down and is invoked again.
C12_Witness ==
  /\ wpc = "shutdown" /\ done /\ listenerClosed /\ ptyClosed
  /\ sockFile = 0 /\ jsonFile = 0 /\ errFile = 0

\* C13: as Shutdown returns, done, the listener and the PTY are closed, every
\* registered connection is closed and no session file exists; and Run has
\* returned only after that: once the daemon has ended, Shutdown has returned
\* and no session file exists.
C13_ShutdownLeavesNothing ==
  /\ [][(wpc = "sdRemove" /\ wpc' = "end") =>
          /\ done' /\ listenerClosed' /\ ptyClosed'
          /\ \A c \in clients' : connClosed'[c]
          /\ sockFile' = 0 /\ jsonFile' = 0 /\ errFile' = 0]_vars
  /\ [](serverExited =>
          (wpc = "end" /\ sockFile = 0 /\ jsonFile = 0 /\ errFile = 0))

\* C14: once one of the client's two loops has ended, the client eventually
\* ends with the other loop and with the terminal restored (a client ended by
\* a signal aside), whether or not terminal input arrives.
C14_BothLoopsEnd ==
  (ipc = "end" \/ opc = "end") ~>
     (cexit # "no" /\ (~termRaw \/ cexit = "signal"))

\* C15: when the client process has ended, by whatever path, the terminal is
\* no longer in raw mode.
C15_RestoredOnEveryExit ==
  cexit # "no" => ~termRaw

\* C16: a client's disconnect, and its handler's handling of it, trigger no
\* Shutdown, close no PTY and leave the replay buffer as it is: the teardown
\* starts only after the child's exit; between appends the replay buffer is
\* the tail of everything read, whoever was attached; and a client that
\* attaches is sent the replay buffer as it then is.
C16_DetachKeepsSession ==
  /\ []((done \/ ptyClosed \/ listenerClosed) => childState = "exited")
  /\ [](outputBufMu = "free"
          => outputBuf = LastN(hist, Min(Len(hist), ReplayCap)))
  /\ [][\A c \in Conns :
          (clientGone'[c] # clientGone[c]
             \/ (hpc[c] \in {"loop", "cleanup"} /\ hpc'[c] # hpc[c]))
          => UNCHANGED <<done, ptyClosed, listenerClosed, outputBuf, wpc, rpc>>]_vars
  /\ [][\A c \in Conns :
          (hpc[c] = "snapshot" /\ hpc'[c] = "snapUnlock" /\ ConnOpen(c)
             /\ outputBuf # <<>>)
          => sent'[c] = Append(sent[c], Frame(MsgOutput, outputBuf))]_vars

\* C16 witness: the first client was sent byte 1 and has left; the child, still
\* running, wrote byte 2 with no client attached; the second client's snapshot
\* holds both.
C16_Witness ==
  /\ childState = "running" /\ ~done /\ ~ptyClosed
  /\ hpc[1] = "end" /\ OutBytes(1) = <<1>>
  /\ 2 \in clients /\ sent[2] = <<Frame(MsgOutput, <<1, 2>>)>>

\* A broadcast of frame f is done in this step: every registered client whose
\* connection is open is sent f, every other connection is sent nothing, and
\* nothing else of the server changes.
BroadcastStepOk(f) ==
  /\ \A c \in Conns :
       sent'[c] = IF c \in clients /\ ConnOpen(c) THEN Append(sent[c], f)
                  ELSE sent[c]
  /\ UNCHANGED <<clients, info, hpc, connV, flagV, outputBuf, fileV>>

\* C17: a broadcast (of Output by the PTY-reader, of Exit by the child-waiter)
\* writes the frame to every registered client with a working connection,
\* whatever the state of the other connections, and changes neither the
\* clients map nor any other server state.
C17_BroadcastBestEffort ==
  /\ [][(rpc = "bcast" /\ rpc' = "read")
          => BroadcastStepOk(Frame(MsgOutput, rbuf))]_vars
  /\ [][(wpc = "bcastExit" /\ wpc' = "grace")
          => BroadcastStepOk(Frame(MsgExit, <<>>))]_vars

\* C17 witness: both clients are registered, the first one's connection has
\* failed after byte 1, and the second has been sent byte 2 all the same.
C17_Witness ==
  /\ clients = {1, 2} /\ clientGone[1] /\ ~clientGone[2]
  /\ OutBytes(1) = <<1>> /\ OutBytes(2) = <<1, 2>>

C19_NoWriteUnderReplayMutex ==
  /\ [][(rpc \in {"lock", "trunc"} /\ rpc' # rpc) => sent' = sent]_vars
  /\ [][\A c \in Conns :
          (hpc[c] \in {"snapshot", "snapUnlock"} /\ hpc'[c] # hpc[c])
          => sent'[c] = sent[c]]_vars

\* The length a stream's header declares.
DeclaredLen ==
  rStream[2] * 16777216 + rStream[3] * 65536 + rStream[4] * 256 + rStream[5]

\* C20: readMessage, given a whole header, returns a frame of declared length
\* MaxFrameLen whose payload is there, with the full payload; and rejects
\* every declared length above MaxFrameLen with an error, having read the
\* header only.
C20_FrameLimit ==
  (rResult.status # "none" /\ Len(rStream) >= 5) =>
    /\ (DeclaredLen = MaxFrameLen /\ Len(rStream) >= 5 + MaxFrameLen) =>
         /\ rResult.status = "ok"
         /\ rResult.type = rStream[1]
         /\ rResult.data = SubSeq(rStream, 6, 5 + MaxFrameLen)
         /\ rPos = 5 + MaxFrameLen
    /\ DeclaredLen > MaxFrameLen =>
         (rResult.status = "err" /\ rResult.data = <<>> /\ rPos = 5)

\* C20 witness: a frame of exactly MaxFrameLen payload bytes has been read and
\* returned whole.
C20_Witness ==
  /\ rResult.status = "ok" /\ Len(rResult.data) = MaxFrameLen
  /\ DeclaredLen = MaxFrameLen

\* A handler's read loop ends on a frame readMessage rejects: the connection
\* is open at both ends and the server is not shutting down.
BadFrameStep(c) ==
  hpc[c] = "loop" /\ hpc'[c] = "cleanup" /\ ConnOpen(c) /\ ~done

\* The cleanup that follows it: the server never closes a connection whose
\* handler is in its loop before done is closed.
BadFrameCleanup(c) ==
  hpc[c] = "cleanup" /\ hpc'[c] = "end" /\ ~connClosed[c] /\ ~done

\* What a dropped connection leaves alone: the server's flags, the PTY's
\* child and file, the replay buffer, and every other client's registration,
\* handler, connection and frames.
OthersUntouched(c) ==
  /\ UNCHANGED <<flagV, childV, bufV, ptyIn, fileV>>
  /\ \A d \in Conns \ {c} :
       /\ (d \in clients') = (d \in clients)
       /\ hpc'[d] = hpc[d] /\ connClosed'[d] = connClosed[d]
       /\ sent'[d] = sent[d] /\ info'[d] = info[d]

\* C21 as stated: a bad frame drops that connection only, and the PTY, its
\* window size included, and the replay buffer are unchanged.
C21_PtyUnchanged ==
  [][\A c \in Conns :
       (BadFrameStep(c) \/ BadFrameCleanup(c))
         => (OthersUntouched(c) /\ ptySize' = ptySize)]_vars

\* C21: a frame that readMessage rejects drops that connection only: the
\* handler removes the client and closes its connection; the server is not
\* shut down, the PTY stays open with its child, the replay buffer is
\* unchanged, every other client stays registered, and the next broadcast
\* reaches each of them whose connection works. The PTY's window size is left
\* alone or set to the stored nonzero size of a remaining client.
C21_BadFrameDropsOnlyThatClient ==
  /\ [][\A c \in Conns :
          BadFrameStep(c) => (OthersUntouched(c) /\ UNCHANGED <<clients, sizeV>>)]_vars
  /\ [][\A c \in Conns :
          BadFrameCleanup(c) =>
            /\ OthersUntouched(c)
            /\ clients' = clients \ {c} /\ connClosed'[c]
            /\ \/ ptySize' = ptySize
               \/ \E d \in clients \ {c} :
                    HasSize(info[d]) /\ ptySize' = info[d]]_vars
  /\ [][(wpc = "bcastExit" /\ wpc' = "grace") =>
          \A d \in clients :
            ConnOpen(d) => sent'[d] = Append(sent[d], Frame(MsgExit, <<>>))]_vars

\* C21 witness: connection 1 was dropped on a bad frame (its handler ended with
\* the connection open at the client's end, before any shutdown and without
\* an Exit frame), the PTY took the size of client 2, and client 2, still
\* registered, received the Exit broadcast.
C21_Witness ==
  /\ hpc[1] = "end" /\ connClosed[1] /\ ~clientGone[1] /\ ~HasExit(1)
  /\ ~done /\ 1 \notin clients
  /\ 2 \in clients /\ HasExit(2) /\ lastWriter = 2

\* C22: what readMessage returns from a stream written by writeMessage are
\* the frames written, type and payload, one by one in the order written, for
\* every type byte and every payload of at most MaxFrameLen bytes; once all
\* the bytes are read, every frame written has been returned; and readMessage
\* fails only on a frame whose payload is longer than MaxFrameLen.
C22_RoundTrip ==
  /\ Len(got) <= Len(written)
  /\ \A i \in 1..Len(got) : got[i] = written[i]
  /\ rResult.status = "err" =>
       /\ Len(got) < Len(written)
       /\ Len(written[Len(got) + 1].data) > MaxFrameLen
  /\ (rResult.status # "err" /\ rPos = Len(rStream)) => got = written
  /\ (rResult.status # "err" /\ Len(got) < Len(written)
        /\ Len(written[Len(got) + 1].data) <= MaxFrameLen) => ENABLED ReadFrame

\* C22 witness: two frames of different types were written, the first with a
\* payload of MaxFrameLen bytes that is all zero (it reads as a header), the
\* second empty, and both were read back.
C22_Witness ==
  /\ Len(got) = 2 /\ got = written
  /\ got[1].type = MsgOutput /\ got[1].data = [i \in 1..MaxFrameLen |-> 0]
  /\ got[2].type = MsgExit /\ got[2].data = <<>>

\* The Client's state machine as Attach constructs it.
StartState == [an |-> TRUE, saw |-> 0, esc |-> FALSE]

\* The state of the machine after the bytes, taken one by one.
RECURSIVE StateAfter(_, _)
StateAfter(st, bytes) ==
  IF bytes = <<>> THEN st
  ELSE StateAfter(HandleByte(st, Head(bytes)).st, Tail(bytes))

\* The state in which byte j of the input arrives.
StateBefore(j) == StateAfter(StartState, SubSeq(consumed, 1, j - 1))

\* The position of the byte on which the client detaches (0: none so far).
DetachPos ==
  LET ds == {j \in 1..Len(consumed) :
               HandleByte(StateBefore(j), consumed[j]).detach}
  IN  IF ds = {} THEN 0 ELSE CHOOSE j \in ds : \A k \in ds : j <= k

\* Byte j of the input is an escape char that arrives, before any detach,
\* while after_newline is false and no escape char is pending.
PlainEscape(j) ==
  /\ j \in 1..Len(consumed) /\ (DetachPos = 0 \/ j < DetachPos)
  /\ isEscapeChar(consumed[j]) /\ ~IsCtrlDetach(consumed[j])
  /\ StateBefore(j).saw = 0 /\ ~StateBefore(j).an

\* Byte j of the input has been forwarded as it is.
ForwardedAt(j) ==
  LET k == Len(Emission(StartState, SubSeq(consumed, 1, j)))
  IN  k >= 1 /\ k <= Len(forwarded) /\ forwarded[k] = consumed[j]

\* C23: the client detaches on '.' only if the byte before it was a
\* configured escape char that arrived while after_newline was true;
\* after_newline starts true, so '~.' as the very first input detaches; an
\* escape char that arrives while after_newline is false is forwarded as an
\* ordinary byte, and a '.' that follows it is forwarded too.
C23_DetachOnlyAtLineStart ==
  /\ (cexit = "detach" /\ DetachPos # 0 /\ consumed[DetachPos] = Dot) =>
       /\ DetachPos >= 2
       /\ isEscapeChar(consumed[DetachPos - 1])
       /\ StateBefore(DetachPos - 1).an
  /\ (Len(consumed) >= 2 /\ consumed[1] = Tilde /\ consumed[2] = Dot
        /\ isEscapeChar(Tilde)) => cexit = "detach"
  /\ \A j \in 1..Len(consumed) :
       PlainEscape(j) =>
         /\ ForwardedAt(j)
         /\ (j + 1 <= Len(consumed) /\ consumed[j + 1] = Dot) =>
              ForwardedAt(j + 1)

\* The bytes the terminal read of this step returned.
ReadBytes == SubSeq(consumed', Len(consumed) + 1, Len(consumed'))

\* C24: a byte equal to a configured control-byte key makes the client detach
\* in every state of the machine: a read that holds one ends in a detach
\* whatever after_newline, the pending escape char and in_esc_seq are; when it
\* is the first byte of the read the machine's state is left as it was (the
\* escape-sequence machine does not see the byte); and no such byte is ever
\* forwarded.
C24_CtrlKeyFirst ==
  /\ [](\A k \in 1..Len(forwarded) : ~IsCtrlDetach(forwarded[k]))
  /\ [][(consumed' # consumed
           /\ \E i \in 1..Len(ReadBytes) : IsCtrlDetach(ReadBytes[i])) =>
          /\ cdone' /\ cexit' = "detach" /\ ipc' = "end"
          /\ IsCtrlDetach(ReadBytes[1]) =>
               /\ UNCHANGED <<afterNewline, sawEscapeChar, inEscSeq>>
               /\ forwarded' = forwarded]_vars

\* C24 witness: the control key arrived while an escape char was pending,
\* after_newline was true (set by an Output frame) and a terminal escape
\* sequence was open; the client detached and the state is as it was.
C24_Witness ==
  /\ cexit = "detach" /\ consumed = <<ESC, Tilde, CtrlBackslash>>
  /\ sawEscapeChar = Tilde /\ afterNewline /\ inEscSeq
  /\ forwarded = <<ESC>>

\* C25: the cleanup of a handler that was serving frames removes its client
\* from clients; if a remaining client has a stored size with rows > 0 and
\* cols > 0, the PTY (while it is open) gets the stored size of one such
\* client; otherwise the PTY size is left as it is.
C25_CleanupResizesToRemaining ==
  [][\A c \in Conns :
       (hpc[c] = "cleanup" /\ hpc'[c] = "end") =>
         /\ clients' = clients \ {c}
         /\ LET sized == {d \in clients \ {c} : info[d][1] > 0 /\ info[d][2] > 0}
            IN  IF sized = {} \/ ptyClosed
                THEN ptySize' = ptySize
                ELSE \E d \in sized : ptySize' = info[d]]_vars

\* C25 witness: the handler of connection 1 has ended and its cleanup gave the
\* open PTY the stored size of client 2, which differs from the size the last
\* frame had set.
C25_Witness ==
  /\ hpc[1] = "end" /\ clients = {2} /\ ~ptyClosed
  /\ info[2][1] > 0 /\ info[2][2] > 0
  /\ ptySize = info[2] /\ lastFrameSize # <<>> /\ lastFrameSize # info[2]

\* C26: whether and on which byte the client detaches is decided by the input
\* alone, not by how it is split into reads: the client has detached exactly
\* when the state machine, run over the whole input as one read, detaches; and
\* until then the pending escape char, after_newline and in_esc_seq are what
\* that single run leaves.
C26_SplitIndependent ==
  /\ (cexit = "detach") = (DetachPos # 0)
  /\ cdone = (DetachPos # 0)
  /\ DetachPos = 0 => ClientState = StateAfter(StartState, consumed)
  /\ DetachPos # 0 =>
       /\ DetachPos > Len(consumed) - Len(lastRead)
       /\ ClientState = HandleByte(StateBefore(DetachPos), consumed[DetachPos]).st

\* C26 witness: the escape char ended one read, the '.' came alone in the
\* next, and the client detached.
C26_Witness ==
  /\ consumed = <<Tilde, Dot>> /\ lastRead = <<Dot>>
  /\ cexit = "detach" /\ cdone

\* The server's lifecycle state, from Run on: Running (1) until the
\* child-waiter has set ptyExited, PtyExited (2) during the Exit broadcast and
\* the grace loop, Draining (3) from the end of the grace loop to the call of
\* Shutdown, Closed (4) once done is closed.
Phase ==
  IF done THEN 4
  ELSE IF wpc = "shutdown" THEN 3
  ELSE IF ptyExited THEN 2
  ELSE 1

\* C27: the lifecycle only moves forward, one state at a time; ptyExited and
\* hadClient are never reset and done is never reopened; ptyExited is true
\* only once the child has exited; Shutdown is reached (done closed, listener
\* or PTY closed, Run returned) only when ptyExited is true.
C27_LifecycleForward ==
  /\ [][Phase' \in {Phase, Phase + 1}]_vars
  /\ [][(ptyExited => ptyExited') /\ (hadClient => hadClient')
          /\ (done => done')]_vars
  /\ [](ptyExited => childState = "exited")
  /\ []((wpc = "shutdown" \/ done) => ptyExited)
  /\ []((listenerClosed \/ ptyClosed \/ serverExited) => done)

\* C27 witness: a client attached and was sent Exit, the child exited, the
\* server went through every state to Closed, and Run returned.
C27_Witness ==
  /\ serverExited /\ done /\ ptyExited /\ hadClient
  /\ hpc[1] = "end" /\ HasExit(1)

\* C28: handleOutput, on an Output frame, sets after_newline to true if the
\* payload holds a '\n' or a '\r' and leaves it unchanged if it holds none; no
\* step of the output-reader changes the pending escape char or in_esc_seq, or
\* sets after_newline to false.
C28_OutputNewline ==
  /\ [][(opc = "read" /\ opc' = "top") =>
          afterNewline' =
            IF \E i \in 1..Len(lastOut') : lastOut'[i] \in {LF, CR} THEN TRUE
            ELSE afterNewline]_vars
  /\ [][(opc' # opc \/ lastOut' # lastOut \/ cexit' = "exit") =>
          /\ afterNewline => afterNewline'
          /\ UNCHANGED <<sawEscapeChar, inEscSeq>>]_vars

\* C28 witness: the input 'a', ESC had made after_newline false and opened an
\* escape sequence of the terminal; then an Output frame whose second byte is
\* '\r' set after_newline to true and left in_esc_seq as it was.
C28_Witness ==
  /\ consumed = <<LetterA, ESC>> /\ inEscSeq /\ sawEscapeChar = 0
  /\ lastOut = <<LetterA, CR>> /\ afterNewline
  /\ opc = "top" /\ cexit = "no"

\* C29: when a daemon's startup fails, at whichever step, the daemon keeps
\* no PTY, no socket file and no descriptor of its own, it has written the
\* failure reason to the error file, its process has ended, and the socket
\* file and the descriptor of a daemon that serves the name are as they were.
C29_StartupFailureUnwinds ==
  [][\A d \in Procs :
       (dpc[d] # "failed" /\ dpc'[d] = "failed") =>
         /\ ~ptyHeld'[d] /\ sockFile' # d /\ jsonFile' # d
         /\ errFile' = d /\ ~alive'[d]
         /\ \A e \in Procs \ {d} :
              dpc[e] = "serving" =>
                /\ sockFile = e => sockFile' = e
                /\ jsonFile = e => jsonFile' = e]_vars

\* The bytes of whole frames, one after another.
RECURSIVE WireBytes(_)
WireBytes(fs) ==
  IF fs = <<>> THEN <<>>
  ELSE writeMessage(Head(fs).type, Head(fs).data) \o WireBytes(Tail(fs))

\* C30: what connection 1 carries is always a sequence of whole frames, each
\* header followed at once by its own payload, with at most the header of the
\* frame being written at its end; and what the client's readMessage returns
\* are those frames, in order, without an error.
C30_NoInterleaving ==
  /\ LET whole == WireBytes(sent[1])
     IN  /\ Len(rStream) \in {Len(whole), Len(whole) + 5}
         /\ SubSeq(rStream, 1, Len(whole)) = whole
  /\ rResult.status # "err"
  /\ Len(got) <= Len(sent[1])
  /\ \A i \in 1..Len(got) : got[i] = sent[1][i]

\* The number of Exit frames written to connection c.
ExitCount(c) ==
  Cardinality({i \in 1..Len(sent[c]) : sent[c][i].type = MsgExit})

\* C31: the server writes at most one Exit frame to any client connection,
\* however the child-waiter (ptyExited set, Exit broadcast) and a handler
\* (registration, then the check of ptyExited) interleave.
C31_AtMostOneExit ==
  \A c \in Conns : ExitCount(c) <= 1

\* C32: the client's done channel is closed at most once, however the input
\* loop's detach and the output loop's read failure interleave: no task ever
\* executes close(c.done) on the channel already closed (a run-time panic).
C32_DoneClosedOnce ==
  cexit # "panic"

\* C33: once Shutdown has removed the session files they stay removed: from
\* the moment Shutdown has returned with <name>.json gone, no step of any
\* server task (a handler's registration with its Save included) brings
\* <name>.json back.
C33_FilesStayRemoved ==
  [][(wpc = "end" /\ jsonFile = 0) => jsonFile' = 0]_vars

\* The tasks that take the server's locks, and what each one holds.
LockTasks == Conns \cup {ReaderTask, WaiterTask}

HoldsMu(t) == t \in mu.w \cup mu.r

HoldsBuf(t) ==
  \/ t = ReaderTask /\ outputBufMu = "reader"
  \/ t \in Conns /\ outputBufMu = "handler" /\ hpc[t] = "snapUnlock"

\* A handler that stands before its read of ptyExited gets s.mu at once, or
\* the task that holds s.mu.Lock can run its section to the Unlock.
CanReadFlags(c) ==
  (~serverExited /\ hpc[c] = "readExited" /\ c \notin mu.r)
    => \/ ENABLED HandlerAcquire(c)
       \/ mu.w # {} /\ ENABLED MuRelease

\* C34: the server never deadlocks on its own locks: no task holds s.mu (the
\* clients lock) and s.outputBufMu (the replay mutex) at the same time; a
\* lock that is held can always be released by a step of its holder, so no
\* task waits in a cycle; and a handler can always get s.mu to read ptyExited
\* while it accepts its client.
C34_NoLockCycle ==
  /\ \A t \in LockTasks : ~(HoldsMu(t) /\ HoldsBuf(t))
  /\ (~serverExited /\ mu.w \cup mu.r # {}) => ENABLED MuRelease
  /\ (~serverExited /\ outputBufMu # "free") => ENABLED BufRelease
  /\ \A c \in Conns : CanReadFlags(c)

\* C34 witness: handler 1 stands before its read of ptyExited and must wait,
\* as handler 2 holds s.mu.Lock for its registration, while the PTY-reader
\* holds s.outputBufMu.
C34_Witness ==
  /\ hpc[1] = "readExited" /\ hpc[2] = "accepted" /\ mu.w = {2}
  /\ outputBufMu = "reader" /\ ~serverExited

====
